---- MODULE Spec2Model ----
(***************************************************************************)
(* State-machine model of the chat backend of pratsj22/spur-task:          *)
(*   - chatRepo.ts       the message store (conversations, messages)       *)
(*   - routes/chatRoute  POST /message and GET /history                    *)
(*   - supportAgent      generateSupportReply                              *)
(*   - tokenBudget       takeRecentWithinTokenBudget                       *)
(*   - rateLimit         allowRequest                                      *)
(*                                                                         *)
(* Time is in milliseconds.  A string is a sequence of characters; a       *)
(* cursor string is the sequence of its '|'-separated segments.            *)
(***************************************************************************)
EXTENDS Integers, Sequences, FiniteSets, TLC

VARIABLES
    now,            \* the wall clock read by Date.now() / new Date()
    conversations,  \* rows of table conversations
    messages,       \* rows of table messages
    sends,          \* the POST /message requests, one record per request
    trav,           \* a client walking backward through GET /history
    hist,           \* the last GET /history request and its response
    buckets,        \* rateLimit.ts: Map<string, Entry>
    rl,             \* the last allowRequest call, its result, and the window's tally
    bq,             \* a call of takeRecentWithinTokenBudget and its result
    ui              \* ChatWidget: its state, its last render, its pending requests

vars == <<now, conversations, messages, sends, trav, hist, buckets, rl, bq, ui>>

-----------------------------------------------------------------------------
(* Bounds of the model *)

MaxSends == 2       \* POST /message requests of a behaviour of Spec
MaxIds == 2         \* message ids randomUUID() draws from, in Spec
MaxTicks == 1       \* clock advances of a behaviour of Spec
WalkSends == 1      \* POST /message requests of a behaviour of SpecWalk
WalkIds == 2        \* message ids randomUUID() draws from, in SpecWalk
WalkTicks == 1      \* clock advances of a behaviour of SpecWalk
HistIds == 2        \* message ids randomUUID() draws from, in SpecHist
HistTicks == 1      \* clock advances of a behaviour of SpecHist
MaxLimit == 2       \* largest ?limit= of a history request
RlTicks == 5        \* clock advances of a behaviour of SpecRL
RlMax == 2          \* max of the first rate-limit key
RlWindowTicks == 2  \* windowMs of the first rate-limit key, in clock advances
RlOver == 2         \* calls of one window beyond the key's max, in SpecRL
WidgetCalls == 2    \* send and older-page requests that the widget issues
PairIds == 4        \* message ids randomUUID() draws from, in SpecPair
GateIds == 2        \* message ids randomUUID() draws from, in SpecGate
GateCalls == 2      \* requests on a bucket that is far from its limit, in SpecGate
MaxTurns == 3       \* longest turn list given to the budgeter in SpecBudget
MaxBudget == 3      \* largest maxTokens given to the budgeter in SpecBudget
AgentTurns == 2     \* longest history of a send in SpecAgent
AgentBudget == 2    \* largest LLM_MAX_CONTEXT_TOKENS in SpecAgent
AgentChars == 5     \* largest MAX_MESSAGE_CHARS in SpecAgent
StoreIds == 4       \* message ids of a store of SpecStore
StoreTicks == 1     \* latest created_at of a store of SpecStore, in clock advances

TickMs == 500       \* one clock advance, in milliseconds

(* Program constants *)

WidgetMaxMessageChars == 2000   \* ChatWidget.tsx: MAX_MESSAGE_CHARS
MsPerSecond == 1000          \* Date.prototype.toString() prints whole seconds
CharsPerToken == 4           \* tokenBudget.ts: ~4 chars per token
MAX_LIMIT == 100             \* historyQuerySchema: limit .max(100)
MsgSessWindowMs == 10000     \* rateLimitMessage: per-session window
MsgSessMax == 5              \* rateLimitMessage: per-session max
MsgIpWindowMs == 60000       \* rateLimitMessage: per-IP window
MsgIpMax == 20               \* rateLimitMessage: per-IP max
HistIpWindowMs == 60000      \* rateLimitHistory: per-IP window
HistIpMax == 120             \* rateLimitHistory: per-IP max

(* Configuration (env.ts), set small so that every limit is reached *)

CHAT_PAGE_SIZE == 2
LLM_MAX_CONTEXT_TOKENS == 2
MAX_MESSAGE_CHARS == 5

Undefined == "undefined"
NoRow == [id |-> 0, conversation_id |-> "none", sender |-> "none", text |-> <<>>,
          created_at |-> 0]

Max(a, b) == IF a >= b THEN a ELSE b

SendIds == 1 .. Max(MaxSends, WalkSends)
ConvIds == {"c1", "c2"}
MsgIds ==
    1 .. Max(Max(Max(MaxIds, PairIds), Max(WalkIds, HistIds)),
             CHAT_PAGE_SIZE + 1 + 2 * WidgetCalls)

-----------------------------------------------------------------------------
(* Strings *)

\* "z" stands for a zero-width character (U+200B..U+200F, U+FEFF)
RawMessages == {<<"a">>, <<"z">>}
LlmOutputs == {<<"o", "k">>, <<" ">>, <<>>}
FallbackReply == <<"f", "b">>
Apology == "I'm sorry - I'm having trouble responding right now. Please try again in a moment."
Generic500 == "Something went wrong. Please try again."
OverloadedSession == "The system is overloaded. Please wait a moment before sending more messages."
OverloadedIp == "The system is overloaded. Please try again shortly."
InvalidRequest == "Invalid request"

RECURSIVE TrimLeft(_)
TrimLeft(s) == IF s # <<>> /\ Head(s) = " " THEN TrimLeft(Tail(s)) ELSE s

RECURSIVE TrimRight(_)
TrimRight(s) ==
    IF s # <<>> /\ s[Len(s)] = " " THEN TrimRight(SubSeq(s, 1, Len(s) - 1)) ELSE s

Trim(s) == TrimRight(TrimLeft(s))

Reverse(s) == [i \in 1 .. Len(s) |-> s[Len(s) + 1 - i]]

-----------------------------------------------------------------------------
(* chatRepo.ts: the tables and the four statements *)

\* (created_at, id) < (created_at, id), the row comparison of Postgres
RowLess(t1, id1, t2, id2) == t1 < t2 \/ (t1 = t2 /\ id1 < id2)

ConvExists(convs, cid) == \E c \in convs : c.id = cid

\* Variant: the statement inserts nothing
EnsureConversationSkipped(convs, cid, t) == [rows |-> convs, err |-> "none"]

\* Variant: a plain INSERT, which raises on the primary key
EnsureConversationPlainInsert(convs, cid, t) ==
    IF ConvExists(convs, cid)
    THEN [rows |-> convs, err |-> "unique_violation"]
    ELSE [rows |-> convs \cup {[id |-> cid, created_at |-> t]}, err |-> "none"]

\* Variant: ON CONFLICT (id) DO UPDATE SET created_at = now()
EnsureConversationUpsert(convs, cid, t) ==
    [rows |-> {c \in convs : c.id # cid} \cup {[id |-> cid, created_at |-> t]},
     err |-> "none"]

\* INSERT INTO conversations (id) VALUES ($1) ON CONFLICT (id) DO NOTHING
\* The result is the table after the statement and the error it raised.
EnsureConversationStmt(convs, cid, t) ==
    IF ConvExists(convs, cid)
    THEN [rows |-> convs, err |-> "none"]
    ELSE [rows |-> convs \cup {[id |-> cid, created_at |-> t]}, err |-> "none"]

\* Variant: the statement keeps one row per conversation and sender
InsertMessageStmtLatestPerSender(msgs, convs, row) ==
    IF ~ConvExists(convs, row.conversation_id)
    THEN [rows |-> msgs, err |-> "foreign_key_violation"]
    ELSE [rows |-> {m \in msgs : m.conversation_id # row.conversation_id
                                 \/ m.sender # row.sender} \cup {row},
          err |-> "none"]

\* INSERT INTO messages (...) VALUES (...): primary key on id, foreign key on
\* conversation_id.
InsertMessageStmt(msgs, convs, row) ==
    IF ~ConvExists(convs, row.conversation_id)
    THEN [rows |-> msgs, err |-> "foreign_key_violation"]
    ELSE IF \E m \in msgs : m.id = row.id
    THEN [rows |-> msgs, err |-> "unique_violation"]
    ELSE [rows |-> msgs \cup {row}, err |-> "none"]

\* The greatest row of a non-empty set under (created_at, id)
MaxRow(S) ==
    CHOOSE m \in S : \A o \in S :
        o = m \/ RowLess(o.created_at, o.id, m.created_at, m.id)

\* ORDER BY created_at DESC, id DESC LIMIT n
RECURSIVE OrderDescLimit(_, _)
OrderDescLimit(S, n) ==
    IF S = {} \/ n <= 0 THEN <<>>
    ELSE LET m == MaxRow(S) IN <<m>> \o OrderDescLimit(S \ {m}, n - 1)

\* Variant: the rows are returned as the query orders them
getRecentMessagesNewestFirst(msgs, cid, limit) ==
    OrderDescLimit({m \in msgs : m.conversation_id = cid}, limit)

getRecentMessages(msgs, cid, limit) ==
    Reverse(OrderDescLimit({m \in msgs : m.conversation_id = cid}, limit))

NoId == 0      \* cursorId: undefined

\* Variant: the first query compares created_at alone
OlderFilterIgnoresId(m, cid, cursorCreatedAt, cursorId) ==
    /\ m.conversation_id = cid
    /\ m.created_at < cursorCreatedAt

\* Variant: <= in place of < in both queries
OlderFilterInclusive(m, cid, cursorCreatedAt, cursorId) ==
    /\ m.conversation_id = cid
    /\ IF cursorId # NoId
       THEN ~RowLess(cursorCreatedAt, cursorId, m.created_at, m.id)
       ELSE m.created_at <= cursorCreatedAt

\* The WHERE clause; args.cursorId selects between the two queries
OlderFilter(m, cid, cursorCreatedAt, cursorId) ==
    /\ m.conversation_id = cid
    /\ IF cursorId # NoId
       THEN RowLess(m.created_at, m.id, cursorCreatedAt, cursorId)
       ELSE m.created_at < cursorCreatedAt

getOlderMessages(msgs, cid, cursorCreatedAt, cursorId, limit) ==
    Reverse(OrderDescLimit(
        {m \in msgs : OlderFilter(m, cid, cursorCreatedAt, cursorId)}, limit))

-----------------------------------------------------------------------------
(* tokenBudget.ts *)

\* Math.ceil(m.content.length / 4)
Tokens(content) == (Len(content) + CharsPerToken - 1) \div CharsPerToken

\* Variant: >= in place of >
OverflowsAtBudget(used, tokens, maxTokens) == used + tokens >= maxTokens

\* if (used + tokens > args.maxTokens) break
Overflows(used, tokens, maxTokens) == used + tokens > maxTokens

\* The for loop from position i with the accumulator (selected, used)
RECURSIVE BudgetLoop(_, _, _, _, _)
BudgetLoop(turns, i, maxTokens, selected, used) ==
    IF i > Len(turns) THEN [selectedNewestToOldest |-> selected, usedTokens |-> used]
    ELSE LET tokens == Tokens(turns[i].content) IN
         IF Overflows(used, tokens, maxTokens)
         THEN [selectedNewestToOldest |-> selected, usedTokens |-> used]
         ELSE BudgetLoop(turns, i + 1, maxTokens, Append(selected, turns[i]), used + tokens)

takeRecentWithinTokenBudget(maxTokens, newestToOldest) ==
    BudgetLoop(newestToOldest, 1, maxTokens, <<>>, 0)

-----------------------------------------------------------------------------
(* supportAgent.ts: generateSupportReply up to model.invoke *)

\* Variant: the new user message is put behind the history
NewestToOldestUserLast(historyOldestToNewest, userMessage) ==
    Reverse(historyOldestToNewest) \o <<[role |-> "user", content |-> userMessage]>>

\* newestToOldest = [{role:'user', content:userMessage}, ...history.reverse()]
NewestToOldest(historyOldestToNewest, userMessage) ==
    <<[role |-> "user", content |-> userMessage]>> \o Reverse(historyOldestToNewest)

\* The budgeter's call under env.LLM_MAX_CONTEXT_TOKENS = maxContextTokens
SelectTurns(maxContextTokens, historyOldestToNewest, userMessage) ==
    takeRecentWithinTokenBudget(
        Max(1, maxContextTokens),
        NewestToOldest(historyOldestToNewest, userMessage))

\* The turns handed to model.invoke after the system preamble
SelectedOldestToNewest(historyOldestToNewest, userMessage) ==
    Reverse(SelectTurns(LLM_MAX_CONTEXT_TOKENS, historyOldestToNewest,
                        userMessage).selectedNewestToOldest)

\* `${SYSTEM_PROMPT}\n\n${FAQ_SEED}`
SystemPreamble == "SYSTEM_PROMPT\n\nFAQ_SEED"

\* new HumanMessage(m.content) for a user turn, new AIMessage(m.content) otherwise
LcMessage(m) ==
    [type |-> IF m.role = "user" THEN "human" ELSE "ai", content |-> m.content]

\* Variant: the selected turns are sent in the order the budgeter returns them
lcMessagesNewestFirst(selectedNewestToOldest) ==
    <<[type |-> "system", content |-> SystemPreamble]>>
        \o [i \in 1 .. Len(selectedNewestToOldest) |->
               LcMessage(selectedNewestToOldest[i])]

\* lcMessages = [new SystemMessage(...), ...selectedOldestToNewest.map(...)]
lcMessages(selectedNewestToOldest) ==
    <<[type |-> "system", content |-> SystemPreamble]>>
        \o [i \in 1 .. Len(selectedNewestToOldest) |->
               LcMessage(Reverse(selectedNewestToOldest)[i])]

\* Variant: the trimmed text is returned as it is
ReplyTextNoFallback(content) == Trim(content)

\* const text = (res.content ?? '').toString().trim(); return text || fallback
ReplyText(content) == IF Trim(content) = <<>> THEN FallbackReply ELSE Trim(content)

-----------------------------------------------------------------------------
(* chatRoute.ts: POST /message *)

RECURSIVE StripZeroWidth(_)
StripZeroWidth(s) ==
    IF s = <<>> THEN <<>>
    ELSE IF Head(s) = "z" THEN StripZeroWidth(Tail(s))
    ELSE <<Head(s)>> \o StripZeroWidth(Tail(s))

\* message.replace(/[\\u200B-\\u200F\\uFEFF]/g, '').trim()
CleanMessage(message) == Trim(StripZeroWidth(Trim(message)))

\* The status the validation of lines 113-136 answers with under
\* env.MAX_MESSAGE_CHARS = maxMessageChars, 0 when it passes
ValidationStatusFor(message, maxMessageChars) ==
    IF Len(Trim(message)) < 1 THEN 400
    ELSE IF Len(CleanMessage(message)) = 0 THEN 400
    ELSE IF Len(CleanMessage(message)) > maxMessageChars THEN 413
    ELSE 0

ValidationStatus(message) == ValidationStatusFor(message, MAX_MESSAGE_CHARS)

IdleSend ==
    [pc |-> "idle", cid |-> Undefined, text |-> <<>>, recent |-> <<>>,
     ins |-> NoRow, turns |-> <<>>, reply |-> <<>>, status |-> 0, error |-> "",
     userId |-> 0, aiId |-> 0, cause |-> "none", at |-> "none",
     storeCalls |-> 0, llmCalls |-> 0, userRows |-> 0, aiRows |-> 0]

\* randomUUID() draws an id no row and no insert in flight has
FreeIds ==
    MsgIds \ ({m.id : m \in messages}
              \cup {sends[s].ins.id : s \in {x \in SendIds : sends[x].ins # NoRow}})

\* The awaits of the handler on a store call
StorePcs == {"ensure", "recent", "insertUser", "insertAi"}

\* res.status(status).json({error}); cause records what was caught and at the
\* call that threw.  storeCalls and llmCalls count the calls of the request
\* to the store and to generateSupportReply that have returned or thrown,
\* userRows and aiRows the rows it has inserted.
Respond(s, status, error, cause) ==
    sends' = [sends EXCEPT ![s].pc = "done", ![s].status = status, ![s].error = error,
                           ![s].ins = NoRow, ![s].reply = <<>>, ![s].recent = <<>>,
                           ![s].turns = <<>>, ![s].cause = cause, ![s].at = sends[s].pc,
                           ![s].storeCalls = IF sends[s].pc \in StorePcs THEN @ + 1 ELSE @,
                           ![s].llmCalls = IF sends[s].pc = "llm" THEN @ + 1 ELSE @]

\* The handler's validation of a body whose sessionId is the uuid cid; when
\* it passes, ensureConversation's query is issued.
Validate(s, cid, message) ==
    IF ValidationStatus(message) # 0
    THEN sends' = [sends EXCEPT ![s].pc = "done", ![s].cid = cid,
                                ![s].status = ValidationStatus(message),
                                ![s].error = "validation", ![s].cause = "validation"]
    ELSE sends' = [sends EXCEPT ![s].pc = "ensure", ![s].cid = cid,
                                ![s].text = CleanMessage(message)]

\* The request arrives and is validated; ensureConversation's query is issued.
SendStart(s, cid, message) ==
    /\ sends[s].pc = "idle"
    /\ Validate(s, cid, message)
    /\ UNCHANGED <<now, conversations, messages, trav, hist, buckets, rl, bq, ui>>

\* await ensureConversation(sessionId); getRecentMessages' query is issued.
Ensure(s) ==
    /\ sends[s].pc = "ensure"
    /\ LET r == EnsureConversationStmt(conversations, sends[s].cid, now) IN
       /\ conversations' = r.rows
       /\ IF r.err = "none"
          THEN sends' = [sends EXCEPT ![s].pc = "recent", ![s].storeCalls = @ + 1]
          ELSE Respond(s, 500, Generic500, r.err)
    /\ UNCHANGED <<now, messages, trav, hist, buckets, rl, bq, ui>>

\* Variant: the user message is inserted first and the history is read after it
RecentAfterInsert(s, id) ==
    /\ sends[s].pc = "recent"
    /\ id \in FreeIds
    /\ LET row == [id |-> id, conversation_id |-> sends[s].cid, sender |-> "user",
                   text |-> sends[s].text, created_at |-> now] IN
       /\ messages' = messages \cup {row}
       /\ sends' = [sends EXCEPT
              ![s].pc = "insertUser",
              ![s].storeCalls = @ + 1,
              ![s].recent = getRecentMessages(messages', sends[s].cid, CHAT_PAGE_SIZE),
              ![s].ins = row]
    /\ UNCHANGED <<now, conversations, trav, hist, buckets, rl, bq, ui>>

\* await getRecentMessages(...); insertMessage draws its id and createdAt and
\* issues the INSERT of the user message.
Recent(s, id) ==
    /\ sends[s].pc = "recent"
    /\ id \in FreeIds
    /\ sends' = [sends EXCEPT
           ![s].pc = "insertUser",
           ![s].storeCalls = @ + 1,
           ![s].recent = getRecentMessages(messages, sends[s].cid, CHAT_PAGE_SIZE),
           ![s].ins = [id |-> id, conversation_id |-> sends[s].cid, sender |-> "user",
                       text |-> sends[s].text, created_at |-> now]]
    /\ UNCHANGED <<now, conversations, messages, trav, hist, buckets, rl, bq, ui>>

\* Variant: the handler goes on to the completion without the user's row
InsertUserSkipped(s) ==
    /\ sends[s].pc = "insertUser"
    /\ sends' = [sends EXCEPT
           ![s].pc = "llm", ![s].storeCalls = @ + 1, ![s].ins = NoRow,
           ![s].recent = <<>>,
           ![s].turns = SelectedOldestToNewest(
               [i \in 1 .. Len(sends[s].recent) |->
                   [role |-> sends[s].recent[i].sender,
                    content |-> sends[s].recent[i].text]],
               sends[s].text)]
    /\ UNCHANGED <<now, conversations, messages, trav, hist, buckets, rl, bq, ui>>

\* The INSERT of the user message commits; generateSupportReply builds the
\* turns and calls model.invoke.
InsertUser(s) ==
    /\ sends[s].pc = "insertUser"
    /\ LET r == InsertMessageStmt(messages, conversations, sends[s].ins) IN
       /\ messages' = r.rows
       /\ IF r.err = "none"
          THEN sends' = [sends EXCEPT
                   ![s].pc = "llm",
                   ![s].storeCalls = @ + 1,
                   ![s].userRows = @ + 1,
                   ![s].userId = sends[s].ins.id,
                   ![s].ins = NoRow,
                   ![s].recent = <<>>,
                   ![s].turns = SelectedOldestToNewest(
                       [i \in 1 .. Len(sends[s].recent) |->
                           [role |-> sends[s].recent[i].sender,
                            content |-> sends[s].recent[i].text]],
                       sends[s].text)]
          ELSE Respond(s, 500, Generic500, r.err)
       /\ trav' = [trav EXCEPT
              !.wrote = trav.wrote \/ (trav.pc = "walking" /\ r.err = "none")]
    /\ UNCHANGED <<now, conversations, hist, buckets, rl, bq, ui>>

\* model.invoke resolves; insertMessage draws id and createdAt for the reply
\* and issues its INSERT.
LlmOk(s, content, id) ==
    /\ sends[s].pc = "llm"
    /\ id \in FreeIds
    /\ sends' = [sends EXCEPT
           ![s].pc = "insertAi",
           ![s].llmCalls = @ + 1,
           ![s].turns = <<>>,
           ![s].reply = ReplyText(content),
           ![s].ins = [id |-> id, conversation_id |-> sends[s].cid, sender |-> "ai",
                       text |-> ReplyText(content), created_at |-> now]]
    /\ UNCHANGED <<now, conversations, messages, trav, hist, buckets, rl, bq, ui>>

\* Variant: a failed completion is attempted a second time
LlmFailRetryOnce(s) ==
    /\ sends[s].pc = "llm"
    /\ IF sends[s].llmCalls = 0
       THEN sends' = [sends EXCEPT ![s].llmCalls = @ + 1]
       ELSE Respond(s, 502, Apology, "completion")
    /\ UNCHANGED <<now, conversations, messages, trav, hist, buckets, rl, bq, ui>>

\* Variant: the failure undoes the insert of the user message
LlmFailRollback(s) ==
    /\ sends[s].pc = "llm"
    /\ Respond(s, 502, Apology, "completion")
    /\ messages' = {m \in messages : m.id # sends[s].userId}
    /\ UNCHANGED <<now, conversations, trav, hist, buckets, rl, bq, ui>>

\* generateSupportReply throws (no API key, timeout, provider error): inner catch
LlmFail(s) ==
    /\ sends[s].pc = "llm"
    /\ Respond(s, 502, Apology, "completion")
    /\ UNCHANGED <<now, conversations, messages, trav, hist, buckets, rl, bq, ui>>

\* The INSERT of the ai message commits; res.json({reply, sessionId})
InsertAi(s) ==
    /\ sends[s].pc = "insertAi"
    /\ LET r == InsertMessageStmt(messages, conversations, sends[s].ins) IN
       /\ messages' = r.rows
       /\ IF r.err = "none"
          THEN sends' = [sends EXCEPT ![s].pc = "done", ![s].status = 200,
                                      ![s].aiId = sends[s].ins.id, ![s].ins = NoRow,
                                      ![s].storeCalls = @ + 1, ![s].aiRows = @ + 1]
          ELSE Respond(s, 502, Apology, r.err)
       /\ trav' = [trav EXCEPT
              !.wrote = trav.wrote \/ (trav.pc = "walking" /\ r.err = "none")]
    /\ UNCHANGED <<now, conversations, hist, buckets, rl, bq, ui>>

\* Variant: the reply is sent without awaiting the insert of the ai message
StoreFailReplyAnyway(s) ==
    /\ sends[s].pc \in {"ensure", "recent", "insertUser", "insertAi"}
    /\ IF sends[s].pc = "insertAi"
       THEN sends' = [sends EXCEPT ![s].pc = "done", ![s].status = 200,
                                   ![s].ins = NoRow, ![s].cause = "storage",
                                   ![s].at = "insertAi", ![s].storeCalls = @ + 1]
       ELSE Respond(s, 500, Generic500, "storage")
    /\ UNCHANGED <<now, conversations, messages, trav, hist, buckets, rl, bq, ui>>

\* pool.query rejects (connection lost) in one of the four store calls
StoreFail(s) ==
    /\ sends[s].pc \in {"ensure", "recent", "insertUser", "insertAi"}
    /\ IF sends[s].pc = "insertAi"
       THEN Respond(s, 502, Apology, "storage")
       ELSE Respond(s, 500, Generic500, "storage")
    /\ UNCHANGED <<now, conversations, messages, trav, hist, buckets, rl, bq, ui>>

\* The response has been sent; the next request of this client is a new one
NextRequest(s) ==
    /\ sends[s].pc = "done"
    /\ sends' = [sends EXCEPT ![s] = IdleSend]
    /\ UNCHANGED <<now, conversations, messages, trav, hist, buckets, rl, bq, ui>>

\* Time passes
Tick(maxTicks) ==
    /\ now < maxTicks * TickMs
    /\ now' = now + TickMs
    /\ UNCHANGED <<conversations, messages, sends, trav, hist, buckets, rl, bq, ui>>

-----------------------------------------------------------------------------
(* chatRoute.ts: cursors *)

\* A cursor string is the sequence of its segments between '|'.  A segment is
\* an ISO-8601 timestamp, the text Date.prototype.toString() prints, a UUID,
\* the empty string, or something else.
Seg(k, ms, id) == [k |-> k, ms |-> ms, id |-> id]
IsoSeg(t) == Seg("iso", t, 0)
UuidSeg(id) == Seg("uuid", 0, id)
EmptySeg == Seg("empty", 0, 0)
JunkSeg == Seg("junk", 0, 0)

\* `${created_at}` of the Date that pg returns for a timestamptz column: the
\* local date and time down to the second, without milliseconds
DateToString(t) == Seg("date", (t \div MsPerSecond) * MsPerSecond, 0)

NoCursor == <<>>            \* the query has no cursor parameter / nextCursor: null
EmptyString == <<EmptySeg>>  \* ?cursor=
NoTime == -1

\* toIso: the timestamp the segment denotes, NoTime for null
toIso(raw) ==
    IF raw.k = "iso" THEN raw.ms
    ELSE IF raw.k = "date" THEN raw.ms      \* Date.parse, then toISOString()
    ELSE NoTime

NullCursor == [ok |-> FALSE, createdAt |-> NoTime, id |-> NoId]

\* !cursor
Falsy(cursor) == cursor = NoCursor \/ cursor = EmptyString

\* Variant: a cursor of one part is not accepted
parseCursorTwoPartsOnly(cursor) ==
    IF Falsy(cursor) THEN NullCursor
    ELSE IF Len(cursor) = 2
    THEN IF toIso(cursor[1]) = NoTime \/ cursor[2].k # "uuid" THEN NullCursor
         ELSE [ok |-> TRUE, createdAt |-> toIso(cursor[1]), id |-> cursor[2].id]
    ELSE NullCursor

parseCursor(cursor) ==
    IF Falsy(cursor) THEN NullCursor
    ELSE IF Len(cursor) = 1
    THEN IF toIso(cursor[1]) = NoTime THEN NullCursor
         ELSE [ok |-> TRUE, createdAt |-> toIso(cursor[1]), id |-> NoId]
    ELSE IF Len(cursor) = 2
    THEN IF toIso(cursor[1]) = NoTime \/ cursor[2].k # "uuid" THEN NullCursor
         ELSE [ok |-> TRUE, createdAt |-> toIso(cursor[1]), id |-> cursor[2].id]
    ELSE NullCursor

\* Variant: the cursor names the newest message of the page
NextCursorOfNewest(page) ==
    IF Len(page) > 0
    THEN <<DateToString(page[Len(page)].created_at), UuidSeg(page[Len(page)].id)>>
    ELSE NoCursor

\* Variant: a cursor only when the page has more than one message
NextCursorOffByOne(page) ==
    IF Len(page) > 1 THEN <<DateToString(page[1].created_at), UuidSeg(page[1].id)>>
    ELSE NoCursor

\* messages.length > 0 ? `${messages[0].created_at}|${messages[0].id}` : null
NextCursor(page) ==
    IF Len(page) > 0 THEN <<DateToString(page[1].created_at), UuidSeg(page[1].id)>>
    ELSE NoCursor

-----------------------------------------------------------------------------
(* chatRoute.ts: GET /history *)

NoLimit == 0 - 1     \* the query has no limit parameter

\* historyQuerySchema: sessionId a uuid, limit a positive integer <= 100
QueryValid(cid, limit) ==
    /\ cid \in ConvIds
    /\ limit = NoLimit \/ (limit >= 1 /\ limit <= MAX_LIMIT)

\* if (cursor && !parsedCursor) return 400
CursorRejected(cursor) == ~Falsy(cursor) /\ ~parseCursor(cursor).ok

HistoryResponse(status, error, page, nextCursor, branch) ==
    [status |-> status, error |-> error, messages |-> page,
     nextCursor |-> nextCursor, branch |-> branch]

\* The handler when the store answers; branch records the query it ran
HistoryHandler(msgs, cid, cursor, limit) ==
    IF ~QueryValid(cid, limit)
    THEN HistoryResponse(400, InvalidRequest, <<>>, NoCursor, "invalid_query")
    ELSE IF CursorRejected(cursor)
    THEN HistoryResponse(400, InvalidRequest, <<>>, NoCursor, "invalid_cursor")
    ELSE LET pageSize == IF limit = NoLimit THEN CHAT_PAGE_SIZE ELSE limit
             pc == parseCursor(cursor)
             page == IF pc.ok
                     THEN getOlderMessages(msgs, cid, pc.createdAt, pc.id, pageSize)
                     ELSE getRecentMessages(msgs, cid, pageSize)
         IN HistoryResponse(200, "", page, NextCursor(page),
                            IF pc.ok THEN "older" ELSE "recent")

\* The cursor parameters a client may send, given the timestamps and ids it
\* knows: well-formed ones of one and two segments, and malformed ones
TimeSegs(times) == {IsoSeg(t) : t \in times} \cup {DateToString(t) : t \in times}
CursorInputs(times, ids) ==
    {NoCursor, EmptyString, <<JunkSeg>>}
    \cup {<<a>> : a \in TimeSegs(times)}
    \cup {<<a, UuidSeg(i)>> : a \in TimeSegs(times), i \in ids}
    \cup {<<a, UuidSeg(1)>> : a \in {JunkSeg, EmptySeg}}
    \cup {<<IsoSeg(0), b>> : b \in {JunkSeg, EmptySeg, IsoSeg(0)}}
    \cup {<<IsoSeg(0), UuidSeg(1), b>> : b \in {EmptySeg, UuidSeg(1)}}

NoRequest == [cid |-> Undefined, cursor |-> NoCursor, limit |-> NoLimit]
NoResponse == HistoryResponse(0, "", <<>>, NoCursor, "none")

\* One GET /history request of any client.  The handler leaves the store as
\* it is, so a behaviour records a single request, made in any state.
HistoryRequest(cid, cursor, limit) ==
    /\ hist.res = NoResponse
    /\ hist' = [req |-> [cid |-> cid, cursor |-> cursor, limit |-> limit],
                res |-> HistoryHandler(messages, cid, cursor, limit)]
    /\ UNCHANGED <<now, conversations, messages, sends, trav, buckets, rl, bq, ui>>

\* pool.query rejects inside the handler's try block
HistoryFail(cid, cursor, limit) ==
    /\ hist.res = NoResponse
    /\ HistoryHandler(messages, cid, cursor, limit).status = 200
    /\ hist' = [req |-> [cid |-> cid, cursor |-> cursor, limit |-> limit],
                res |-> HistoryResponse(500, Generic500, <<>>, NoCursor, "failed")]
    /\ UNCHANGED <<now, conversations, messages, sends, trav, buckets, rl, bq, ui>>

-----------------------------------------------------------------------------
(* A client that walks backward: a first call without cursor, then each call
   with the nextCursor of the call before, until nextCursor is null *)

IdleTrav ==
    [pc |-> "idle", cid |-> Undefined, limit |-> NoLimit, cursor |-> NoCursor,
     pages |-> <<>>, pre |-> {}, wrote |-> FALSE]

TravCall(cid, cursor, limit, pre) ==
    LET res == HistoryHandler(messages, cid, cursor, limit) IN
    trav' = [pc |-> IF res.nextCursor = NoCursor THEN "done" ELSE "walking",
             cid |-> cid, limit |-> limit, cursor |-> res.nextCursor,
             pages |-> Append(trav.pages, res.messages),
             pre |-> pre, wrote |-> trav.wrote]

TravStart(cid, limit) ==
    /\ trav.pc = "idle"
    /\ TravCall(cid, NoCursor, limit, {m \in messages : m.conversation_id = cid})
    /\ UNCHANGED <<now, conversations, messages, sends, hist, buckets, rl, bq, ui>>

TravNext ==
    /\ trav.pc = "walking"
    /\ TravCall(trav.cid, trav.cursor, trav.limit, trav.pre)
    /\ UNCHANGED <<now, conversations, messages, sends, hist, buckets, rl, bq, ui>>

-----------------------------------------------------------------------------
(* rateLimit.ts *)

\* buckets.set(key, entry)
MapSet(map, key, entry) ==
    [k \in DOMAIN map \cup {key} |-> IF k = key THEN entry ELSE map[k]]

\* Variant: > in place of >=
AtLimitOffByOne(count, max) == count > max

\* if (entry.count >= args.max)
AtLimit(count, max) == count >= max

\* Variant: a new window ends after half of windowMs
allowRequestHalfWindow(map, t, key, windowMs, max) ==
    IF key \notin DOMAIN map \/ map[key].resetAt <= t
    THEN [buckets |-> MapSet(map, key, [count |-> 1, resetAt |-> t + windowMs \div 2]),
          allowed |-> TRUE, retryAfterMs |-> 0]
    ELSE IF AtLimit(map[key].count, max)
    THEN [buckets |-> map, allowed |-> FALSE, retryAfterMs |-> map[key].resetAt - t]
    ELSE [buckets |-> MapSet(map, key, [count |-> map[key].count + 1,
                                        resetAt |-> map[key].resetAt]),
          allowed |-> TRUE, retryAfterMs |-> 0]

\* Variant: a denied call is counted as well
allowRequestCountsDenied(map, t, key, windowMs, max) ==
    IF key \notin DOMAIN map \/ map[key].resetAt <= t
    THEN [buckets |-> MapSet(map, key, [count |-> 1, resetAt |-> t + windowMs]),
          allowed |-> TRUE, retryAfterMs |-> 0]
    ELSE [buckets |-> MapSet(map, key, [count |-> map[key].count + 1,
                                        resetAt |-> map[key].resetAt]),
          allowed |-> ~AtLimit(map[key].count, max),
          retryAfterMs |-> IF AtLimit(map[key].count, max)
                           THEN map[key].resetAt - t ELSE 0]

\* Variant: < in place of <= in the test of resetAt
allowRequestLateReset(map, t, key, windowMs, max) ==
    IF key \notin DOMAIN map \/ map[key].resetAt < t
    THEN [buckets |-> MapSet(map, key, [count |-> 1, resetAt |-> t + windowMs]),
          allowed |-> TRUE, retryAfterMs |-> 0]
    ELSE IF AtLimit(map[key].count, max)
    THEN [buckets |-> map, allowed |-> FALSE, retryAfterMs |-> map[key].resetAt - t]
    ELSE [buckets |-> MapSet(map, key, [count |-> map[key].count + 1,
                                        resetAt |-> map[key].resetAt]),
          allowed |-> TRUE, retryAfterMs |-> 0]

\* Variant: the count is incremented on a copy of the entry
allowRequestOnCopy(map, t, key, windowMs, max) ==
    IF key \notin DOMAIN map \/ map[key].resetAt <= t
    THEN [buckets |-> MapSet(map, key, [count |-> 1, resetAt |-> t + windowMs]),
          allowed |-> TRUE, retryAfterMs |-> 0]
    ELSE IF AtLimit(map[key].count, max)
    THEN [buckets |-> map, allowed |-> FALSE, retryAfterMs |-> map[key].resetAt - t]
    ELSE [buckets |-> map, allowed |-> TRUE, retryAfterMs |-> 0]

\* allowRequest at time t: the map afterwards and the value returned
allowRequest(map, t, key, windowMs, max) ==
    IF key \notin DOMAIN map \/ map[key].resetAt <= t
    THEN [buckets |-> MapSet(map, key, [count |-> 1, resetAt |-> t + windowMs]),
          allowed |-> TRUE, retryAfterMs |-> 0]
    ELSE IF AtLimit(map[key].count, max)
    THEN [buckets |-> map, allowed |-> FALSE, retryAfterMs |-> map[key].resetAt - t]
    ELSE [buckets |-> MapSet(map, key, [count |-> map[key].count + 1,
                                        resetAt |-> map[key].resetAt]),
          allowed |-> TRUE, retryAfterMs |-> 0]

\* The callers of SpecRL: every key keeps its windowMs and max
RlKeys == {"k1", "k2"}
RlWindowMs(key) == IF key = "k1" THEN RlWindowTicks * TickMs ELSE (RlWindowTicks + 1) * TickMs
RlMaxOf(key) == IF key = "k1" THEN RlMax ELSE RlMax + 1

NoCall ==
    [key |-> "", at |-> 0, allowed |-> FALSE, retryAfterMs |-> 0, opened |-> FALSE,
     tally |-> [k \in RlKeys |-> 0], calls |-> [k \in RlKeys |-> 0],
     prev |-> [k \in RlKeys |-> 0],
     log |-> [k \in RlKeys |-> [i \in 0 .. RlTicks |-> 0]]]

\* One call; rl records it, whether it opened a window, and per key the number
\* of calls made (calls) and allowed (tally) since the key's window was opened
\* and the number of calls made in the key's window before (prev).
\* A window gets at most RlOver calls beyond the key's max.
\* One call of allowRequest for key at the present instant.  rl records the
\* call and its result; when logged, rl.log also counts the allowed calls of
\* each key per instant.
RlCall(key, logged) ==
    LET r == allowRequest(buckets, now, key, RlWindowMs(key), RlMaxOf(key))
        opened == key \notin DOMAIN buckets \/ buckets[key].resetAt <= now
    IN /\ IF opened THEN TRUE ELSE rl.calls[key] < RlMaxOf(key) + RlOver
       /\ buckets' = r.buckets
       /\ rl' = [key |-> key, at |-> now, allowed |-> r.allowed,
                 retryAfterMs |-> r.retryAfterMs, opened |-> opened,
                 tally |-> [rl.tally EXCEPT ![key] =
                               IF opened THEN 1
                               ELSE IF r.allowed THEN @ + 1 ELSE @],
                 calls |-> [rl.calls EXCEPT ![key] = IF opened THEN 1 ELSE @ + 1],
                 prev |-> [rl.prev EXCEPT ![key] = IF opened THEN rl.calls[key] ELSE @],
                 log |-> IF logged /\ r.allowed
                         THEN [rl.log EXCEPT ![key][now \div TickMs] = @ + 1]
                         ELSE rl.log]
       /\ UNCHANGED <<now, conversations, messages, sends, trav, hist, bq, ui>>

RlRequest(key) == RlCall(key, FALSE)

\* The same call with the instants of the allowed calls kept
RlLogged(key) == RlCall(key, TRUE)

-----------------------------------------------------------------------------
(* rateLimit middleware (rateLimitMessage, rateLimitHistory) in front of the
   two handlers.  A bucket key is its prefix and the session id or the IP. *)

BucketKey(scope, id) == [scope |-> scope, id |-> id]

\* typeof req.body?.sessionId === 'string' ? String(...) : undefined, and then
\* `if (maybeSessionId)`: a string that is not empty
HasSessionId(sessionId) == sessionId # Undefined /\ sessionId # ""

\* Variant: the limiter counts only the bodies the validation lets through
rateLimitMessageValidOnly(map, t, body, ip) ==
    IF body.sessionId \notin ConvIds \/ ValidationStatus(body.message) # 0
    THEN [buckets |-> map, allowed |-> TRUE, retryAfterMs |-> 0]
    ELSE allowRequest(map, t, BucketKey("msg:sess", body.sessionId),
                      MsgSessWindowMs, MsgSessMax)

\* Variant: the per-IP bucket is consulted for every request
rateLimitMessagePerIp(map, t, body, ip) ==
    allowRequest(map, t, BucketKey("msg:ip", ip), MsgIpWindowMs, MsgIpMax)

\* The allowRequest call of rateLimitMessage: the map afterwards and the
\* decision
rateLimitMessage(map, t, body, ip) ==
    IF HasSessionId(body.sessionId)
    THEN allowRequest(map, t, BucketKey("msg:sess", body.sessionId),
                      MsgSessWindowMs, MsgSessMax)
    ELSE allowRequest(map, t, BucketKey("msg:ip", ip), MsgIpWindowMs, MsgIpMax)

\* The allowRequest call of rateLimitHistory
rateLimitHistory(map, t, ip) ==
    allowRequest(map, t, BucketKey("hist:ip", ip), HistIpWindowMs, HistIpMax)

\* The key rateLimitMessage uses for the request
MessageKey(body, ip) ==
    IF HasSessionId(body.sessionId) THEN BucketKey("msg:sess", body.sessionId)
    ELSE BucketKey("msg:ip", ip)

\* postMessageSchema on the sessionId: a uuid
SessionIdValid(sessionId) == sessionId \in ConvIds

\* POST /message: rateLimitMessage, then the handler up to the query of
\* ensureConversation
PostMessage(s, body, ip) ==
    /\ sends[s].pc = "idle"
    /\ LET g == rateLimitMessage(buckets, now, body, ip) IN
       /\ buckets' = g.buckets
       /\ IF ~g.allowed
          THEN sends' = [sends EXCEPT
                   ![s].pc = "done", ![s].cid = body.sessionId, ![s].status = 429,
                   ![s].error = IF HasSessionId(body.sessionId)
                                THEN OverloadedSession ELSE OverloadedIp,
                   ![s].cause = "rate_limit"]
          ELSE IF ~SessionIdValid(body.sessionId)
          THEN sends' = [sends EXCEPT
                   ![s].pc = "done", ![s].cid = body.sessionId, ![s].status = 400,
                   ![s].error = "validation", ![s].cause = "validation"]
          ELSE Validate(s, body.sessionId, body.message)
    /\ UNCHANGED <<now, conversations, messages, trav, hist, rl, bq, ui>>

\* GET /history: rateLimitHistory, then the handler
GetHistory(ip, cid, cursor, limit) ==
    LET g == rateLimitHistory(buckets, now, ip) IN
    /\ buckets' = g.buckets
    /\ hist' = [req |-> [cid |-> cid, cursor |-> cursor, limit |-> limit],
                res |-> IF g.allowed
                        THEN HistoryHandler(messages, cid, cursor, limit)
                        ELSE HistoryResponse(429, OverloadedIp, <<>>, NoCursor,
                                             "rate_limited")]
    /\ UNCHANGED <<now, conversations, messages, sends, trav, rl, bq, ui>>

\* The requests of SpecGate
GateIps == {"ip1"}
GateBodies ==
    [sessionId : {"c1", "not-a-uuid", "", Undefined},
     message : {<<"a">>, <<"z">>, [i \in 1 .. MAX_MESSAGE_CHARS + 1 |-> "a"]}]

\* A bucket as count requests of one instant leave it
BucketAfter(count, windowMs) == [count |-> count, resetAt |-> windowMs]

\* The maps SpecGate starts from: empty, or with the buckets of the caller's
\* IP one request below their limits
GateMaps ==
    {<<>>,
     MapSet(MapSet(<<>>, BucketKey("msg:ip", "ip1"),
                   BucketAfter(MsgIpMax - 1, MsgIpWindowMs)),
            BucketKey("hist:ip", "ip1"), BucketAfter(HistIpMax - 1, HistIpWindowMs))}

\* A behaviour of SpecGate makes at most GateCalls requests on a bucket that
\* is far from its limit
GateRoom(key, max) ==
    IF key \in DOMAIN buckets
    THEN buckets[key].count < GateCalls \/ buckets[key].count >= max - 1
    ELSE TRUE

-----------------------------------------------------------------------------
(* Calls of takeRecentWithinTokenBudget on any turn list *)

TurnContents == {<<>>, <<"a">>, <<"a", "a", "a", "a">>, <<"a", "a", "a", "a", "a">>}
Turns == [role : {"user", "ai"}, content : TurnContents]

NoBudgetCall(maxTokens) ==
    [maxTokens |-> maxTokens, newestToOldest |-> <<>>,
     selectedNewestToOldest |-> <<>>, usedTokens |-> 0, pc |-> "input"]

\* The caller adds an older turn to the argument
BudgetInput(turn) ==
    /\ bq.pc = "input"
    /\ Len(bq.newestToOldest) < MaxTurns
    /\ bq' = [bq EXCEPT !.newestToOldest = Append(@, turn)]
    /\ UNCHANGED <<now, conversations, messages, sends, trav, hist, buckets, rl, ui>>

BudgetCall ==
    /\ bq.pc = "input"
    /\ LET r == takeRecentWithinTokenBudget(bq.maxTokens, bq.newestToOldest) IN
       bq' = [bq EXCEPT !.pc = "called",
                        !.selectedNewestToOldest = r.selectedNewestToOldest,
                        !.usedTokens = r.usedTokens]
    /\ UNCHANGED <<now, conversations, messages, sends, trav, hist, buckets, rl, ui>>

-----------------------------------------------------------------------------
(* A send up to model.invoke, under any configuration: bq is the budgeter's
   call that generateSupportReply makes *)

AgentMessages ==
    {[i \in 1 .. n |-> "a"] : n \in 1 .. AgentChars + 1} \cup {<<"z">>, <<"z", "a">>}

AgentIdle(maxContextTokens, maxMessageChars) ==
    [maxContextTokens |-> maxContextTokens, maxMessageChars |-> maxMessageChars,
     history |-> <<>>, userMessage |-> <<>>, status |-> 0, maxTokens |-> 0,
     newestToOldest |-> <<>>, selectedNewestToOldest |-> <<>>, usedTokens |-> 0,
     sent |-> <<>>, lcMessages |-> <<>>, pc |-> "input"]

\* The conversation has one more stored message, which getRecentMessages
\* will return
AgentHistory(turn) ==
    /\ bq.pc = "input"
    /\ Len(bq.history) < AgentTurns
    /\ bq' = [bq EXCEPT !.history = Append(@, turn)]
    /\ UNCHANGED <<now, conversations, messages, sends, trav, hist, buckets, rl, ui>>

\* POST /message from its validation to model.invoke(lcMessages)
AgentSend(message) ==
    /\ bq.pc = "input"
    /\ IF ValidationStatusFor(message, bq.maxMessageChars) # 0
       THEN bq' = [bq EXCEPT !.pc = "rejected",
                             !.status = ValidationStatusFor(message, bq.maxMessageChars)]
       ELSE LET r == SelectTurns(bq.maxContextTokens, bq.history, CleanMessage(message))
            IN bq' = [bq EXCEPT
                   !.pc = "invoked",
                   !.userMessage = CleanMessage(message),
                   !.maxTokens = Max(1, bq.maxContextTokens),
                   !.newestToOldest = NewestToOldest(bq.history, CleanMessage(message)),
                   !.selectedNewestToOldest = r.selectedNewestToOldest,
                   !.usedTokens = r.usedTokens,
                   !.sent = Reverse(r.selectedNewestToOldest),
                   !.lcMessages = lcMessages(r.selectedNewestToOldest)]
    /\ UNCHANGED <<now, conversations, messages, sends, trav, hist, buckets, rl, ui>>

-----------------------------------------------------------------------------
(* ChatWidget.tsx.  ui holds the widget's state (the useState values), the
   values its event handlers closed over at the last render (seen), and its
   requests in flight: req[s] is the text of the send request that slot s of
   sends serves, loads the cursors of the loadOlder requests.  lastStatus is
   the status of the last send that came to its end, declined the condition
   on which the last call of handleSend returned at its guard. *)

WidgetSession == "c1"     \* getOrCreateSessionId()
WidgetIp == "ip1"
FailedToLoad == "Failed to load chat history"

\* The values of a render that decide which controls exist and that
\* loadOlder and handleSend read
Snapshot(u) ==
    [isOpen |-> u.isOpen, isLoadingHistory |-> u.isLoadingHistory,
     isSending |-> u.isSending, isLoadingMore |-> u.isLoadingMore,
     hasMore |-> u.hasMore, nextCursor |-> u.nextCursor]

\* React commits the updates of a click or a key press before it dispatches
\* the next event
Flushed(u) == [u EXCEPT !.seen = Snapshot(u)]

IdleWidget ==
    [isOpen |-> FALSE, messages |-> <<>>, nextCursor |-> NoCursor, hasMore |-> TRUE,
     isLoadingHistory |-> FALSE, isLoadingMore |-> FALSE, isSending |-> FALSE,
     requestError |-> "",
     seen |-> [isOpen |-> FALSE, isLoadingHistory |-> FALSE, isSending |-> FALSE,
               isLoadingMore |-> FALSE, hasMore |-> TRUE, nextCursor |-> NoCursor],
     req |-> [s \in SendIds |-> <<>>], loads |-> <<>>, initials |-> 0,
     sent |-> 0, loaded |-> 0, lastStatus |-> 0,
     declined |-> "no"]

\* A message the widget creates itself, under an id of crypto.randomUUID()
LocalMessage(sender, text) ==
    [id |-> NoId, conversation_id |-> WidgetSession, sender |-> sender,
     text |-> text, created_at |-> now]

\* A render scheduled by updates made outside a click or key press
Render ==
    /\ ui.seen # Snapshot(ui)
    /\ ui' = Flushed(ui)
    /\ UNCHANGED <<now, conversations, messages, sends, trav, hist, buckets, rl, bq>>

\* The launcher button: setIsOpen(true); the effect on isOpen calls
\* loadInitial, which sets isLoadingHistory and issues fetchHistory
OpenWidget ==
    /\ ~ui.seen.isOpen
    /\ ui' = Flushed([ui EXCEPT !.isOpen = TRUE, !.isLoadingHistory = TRUE,
                                !.initials = @ + 1])
    /\ UNCHANGED <<now, conversations, messages, sends, trav, hist, buckets, rl, bq>>

\* loadInitial after its await: the response of GET /history without cursor,
\* or the catch when fetchHistory throws; finally
InitialDone(ok) ==
    /\ ui.initials > 0
    /\ LET res == HistoryHandler(messages, WidgetSession, NoCursor, NoLimit) IN
       ui' = IF ok
             THEN [ui EXCEPT !.messages = res.messages,
                             !.nextCursor = res.nextCursor,
                             !.hasMore = Len(res.messages) > 0,
                             !.isLoadingHistory = FALSE, !.initials = @ - 1]
             ELSE [ui EXCEPT !.requestError = FailedToLoad,
                             !.isLoadingHistory = FALSE, !.initials = @ - 1]
    /\ UNCHANGED <<now, conversations, messages, sends, trav, hist, buckets, rl, bq>>

\* Virtuoso calls startReached, that is loadOlder of the last render, up to
\* its await
StartReached ==
    /\ ui.seen.isOpen /\ ~ui.seen.isLoadingHistory
    /\ ui.sent + ui.loaded < WidgetCalls
    /\ ui' = IF ~ui.seen.hasMore \/ ui.seen.nextCursor = NoCursor
                \/ ui.seen.isLoadingMore
             THEN ui
             ELSE [ui EXCEPT !.isLoadingMore = TRUE,
                             !.loads = Append(@, ui.seen.nextCursor),
                             !.loaded = @ + 1]
    /\ UNCHANGED <<now, conversations, messages, sends, trav, hist, buckets, rl, bq>>

\* The sequence without its i-th element
RemoveAt(seq, i) == SubSeq(seq, 1, i - 1) \o SubSeq(seq, i + 1, Len(seq))

\* loadOlder after its await for the i-th request in flight: the response, or
\* fetchHistory throws; finally
OlderDone(i, ok) ==
    /\ i \in 1 .. Len(ui.loads)
    /\ LET res == HistoryHandler(messages, WidgetSession, ui.loads[i], NoLimit)
           rest == [ui EXCEPT !.isLoadingMore = FALSE, !.loads = RemoveAt(@, i)]
       IN ui' = IF ~ok THEN rest
                ELSE IF Len(res.messages) = 0 THEN [rest EXCEPT !.hasMore = FALSE]
                ELSE [rest EXCEPT !.messages = res.messages \o @,
                                  !.nextCursor = res.nextCursor]
    /\ UNCHANGED <<now, conversations, messages, sends, trav, hist, buckets, rl, bq>>

\* The condition of its guard on which handleSend returns
Declines(text, isSending) ==
    IF Trim(text) = <<>> THEN "empty"
    ELSE IF isSending THEN "sending"
    ELSE IF Len(Trim(text)) > WidgetMaxMessageChars THEN "long"
    ELSE "no"

\* Variant: handleSend without isSending in its guard
SendAttemptUnguarded(s, text) ==
    /\ ui.seen.isOpen
    /\ ui.req[s] = <<>> /\ sends[s].pc = "idle"
    /\ ui.sent + ui.loaded < WidgetCalls
    /\ ui' = IF Trim(text) = <<>> \/ Len(Trim(text)) > WidgetMaxMessageChars
             THEN [ui EXCEPT !.declined = Declines(text, FALSE)]
             ELSE Flushed([ui EXCEPT
                      !.isSending = TRUE, !.requestError = "",
                      !.messages = Append(@, LocalMessage("user", Trim(text))),
                      !.req[s] = Trim(text), !.sent = @ + 1,
                      !.declined = "no"])
    /\ UNCHANGED <<now, conversations, messages, sends, trav, hist, buckets, rl, bq>>

\* The Send button or Enter: handleSend(draft.text) of the last render up to
\* its await; the request it issues will be served by slot s
SendAttempt(s, text) ==
    /\ ui.seen.isOpen
    /\ ui.req[s] = <<>> /\ sends[s].pc = "idle"
    /\ ui.sent + ui.loaded < WidgetCalls
    /\ ui' = IF Trim(text) = <<>> \/ ui.seen.isSending
                \/ Len(Trim(text)) > WidgetMaxMessageChars
             THEN [ui EXCEPT !.declined = Declines(text, ui.seen.isSending)]
             ELSE Flushed([ui EXCEPT
                      !.isSending = TRUE, !.requestError = "",
                      !.messages = Append(@, LocalMessage("user", Trim(text))),
                      !.req[s] = Trim(text), !.sent = @ + 1,
                      !.declined = "no"])
    /\ UNCHANGED <<now, conversations, messages, sends, trav, hist, buckets, rl, bq>>

\* The request of slot s reaches the server
WidgetPost(s) ==
    /\ ui.req[s] # <<>>
    /\ PostMessage(s, [sessionId |-> WidgetSession, message |-> ui.req[s]], WidgetIp)

\* Variant: isSending is cleared on the success path only
SendDoneNoFinally(s) ==
    /\ ui.req[s] # <<>>
    /\ sends[s].pc = "done"
    /\ ui' = IF sends[s].status = 200
             THEN [ui EXCEPT
                      !.messages = Append(@, LocalMessage("ai", sends[s].reply)),
                      !.isSending = FALSE, !.req[s] = <<>>, !.lastStatus = 200]
             ELSE [ui EXCEPT
                      !.requestError = sends[s].error,
                      !.req[s] = <<>>, !.lastStatus = sends[s].status]
    /\ sends' = [sends EXCEPT ![s] = IdleSend]
    /\ UNCHANGED <<now, conversations, messages, trav, hist, buckets, rl, bq>>

\* handleSend after its await: the reply is appended, or the catch sets
\* requestError; finally setIsSending(false)
SendDone(s) ==
    /\ ui.req[s] # <<>>
    /\ sends[s].pc = "done"
    /\ ui' = IF sends[s].status = 200
             THEN [ui EXCEPT
                      !.messages = Append(@, LocalMessage("ai", sends[s].reply)),
                      !.isSending = FALSE, !.req[s] = <<>>, !.lastStatus = 200]
             ELSE [ui EXCEPT
                      !.requestError = sends[s].error, !.isSending = FALSE,
                      !.req[s] = <<>>, !.lastStatus = sends[s].status]
    /\ sends' = [sends EXCEPT ![s] = IdleSend]
    /\ UNCHANGED <<now, conversations, messages, trav, hist, buckets, rl, bq>>

-----------------------------------------------------------------------------
(* The store with its two endpoints *)

Init ==
    /\ now = 0
    /\ conversations = {}
    /\ messages = {}
    /\ sends = [s \in SendIds |-> IdleSend]
    /\ trav = IdleTrav
    /\ hist = [req |-> NoRequest, res |-> NoResponse]
    /\ buckets = <<>>
    /\ rl = NoCall
    /\ bq = NoBudgetCall(0)
    /\ ui = IdleWidget

\* The steps of request s, with its inputs drawn from the given sets
SendStep(s, cids, raws, outs, ids) ==
    \/ \E cid \in cids, message \in raws : SendStart(s, cid, message)
    \/ Ensure(s)
    \/ \E id \in ids : Recent(s, id)
    \/ InsertUser(s)
    \/ \E content \in outs, id \in ids : LlmOk(s, content, id)
    \/ LlmFail(s)
    \/ InsertAi(s)
    \/ StoreFail(s)

Next ==
    \/ \E s \in 1 .. MaxSends : SendStep(s, ConvIds, RawMessages, LlmOutputs, 1 .. MaxIds)
    \/ Tick(MaxTicks)

Spec == Init /\ [][Next]_vars

(* Concurrent sends of one text on one conversation, each of which can run
   to its end *)
PairNext ==
    \E s \in 1 .. MaxSends :
        SendStep(s, {"c1"}, {<<"a">>}, {<<"o", "k">>}, 1 .. PairIds)

SpecPair == Init /\ [][PairNext]_vars

(* The store under a walking client: one conversation, one text *)
WalkNext ==
    \/ \E s \in 1 .. WalkSends :
           \/ SendStep(s, {"c1"}, {<<"a">>}, {<<"o", "k">>}, 1 .. WalkIds)
           \/ NextRequest(s)
    \/ Tick(WalkTicks)
    \/ \E limit \in 1 .. MaxLimit : TravStart("c1", limit)
    \/ TravNext

SpecWalk == Init /\ [][WalkNext]_vars

(* The store filled by one sender, and then one history request of any shape:
   a behaviour ends with the request it observes *)
HistSenders == {1}
HistTimes == {k * TickMs : k \in 0 .. HistTicks}
HistNext ==
    \/ /\ hist.res = NoResponse
       /\ \E s \in HistSenders :
              \/ SendStep(s, {"c1"}, {<<"a">>}, {<<"o", "k">>}, 1 .. HistIds)
              \/ NextRequest(s)
    \/ /\ hist.res = NoResponse
       /\ Tick(HistTicks)
    \/ \E cid \in {"c1", "not-a-uuid"},
          cursor \in CursorInputs(HistTimes, 1 .. HistIds),
          limit \in {NoLimit} \cup (0 .. MaxLimit) :
           \/ HistoryRequest(cid, cursor, limit)
           \/ HistoryFail(cid, cursor, limit)

SpecHist == Init /\ [][HistNext]_vars

(* The rate limiter under any sequence of request times *)
RlNext ==
    \/ \E key \in RlKeys : RlRequest(key)
    \/ Tick(RlTicks)

SpecRL == Init /\ [][RlNext]_vars

(* The rate limiter with the instants of its allowed calls kept; a behaviour
   follows the requests of one key, whichever it is *)
WindowNext ==
    \/ \E key \in RlKeys :
           /\ \A other \in RlKeys \ {key} : other \notin DOMAIN buckets
           /\ RlLogged(key)
    \/ Tick(RlTicks)

SpecWindow == Init /\ [][WindowNext]_vars

(* The budgeter on every turn list and budget within the bounds *)
BudgetInit ==
    /\ now = 0
    /\ conversations = {}
    /\ messages = {}
    /\ sends = [s \in SendIds |-> IdleSend]
    /\ trav = IdleTrav
    /\ hist = [req |-> NoRequest, res |-> NoResponse]
    /\ buckets = <<>>
    /\ rl = NoCall
    /\ bq \in {NoBudgetCall(m) : m \in 0 .. MaxBudget}
    /\ ui = IdleWidget

BudgetNext ==
    \/ \E turn \in Turns : BudgetInput(turn)
    \/ BudgetCall

SpecBudget == BudgetInit /\ [][BudgetNext]_vars

(* The repository's queries on any store: every table the inserts can leave,
   that is, message ids unique and every conversation_id a conversation's *)
StoreRowChoices ==
    {NoRow} \cup [id : {0}, conversation_id : ConvIds, sender : {"user"},
                  text : {<<"a">>}, created_at : {k * TickMs : k \in 0 .. StoreTicks}]

StoreTables ==
    {{[f[i] EXCEPT !.id = i] : i \in {j \in 1 .. StoreIds : f[j] # NoRow}} :
        f \in [1 .. StoreIds -> StoreRowChoices]}

StoreInit ==
    /\ now = StoreTicks * TickMs
    /\ conversations = {[id |-> cid, created_at |-> 0] : cid \in ConvIds}
    /\ messages \in StoreTables
    /\ sends = [s \in SendIds |-> IdleSend]
    /\ trav = IdleTrav
    /\ hist = [req |-> NoRequest, res |-> NoResponse]
    /\ buckets = <<>>
    /\ rl = NoCall
    /\ bq = NoBudgetCall(0)
    /\ ui = IdleWidget

\* One call of getRecentMessages; hist records its arguments and its result
RecentCall(cid, limit) ==
    /\ hist.res = NoResponse
    /\ hist' = [req |-> [cid |-> cid, cursor |-> NoCursor, limit |-> limit],
                res |-> HistoryResponse(200, "", getRecentMessages(messages, cid, limit),
                                        NoCursor, "getRecentMessages")]
    /\ UNCHANGED <<now, conversations, messages, sends, trav, buckets, rl, bq, ui>>

\* The cursors of SpecStore that denote a position
StoreTimes == {k * TickMs : k \in 0 .. StoreTicks}
StoreCursors ==
    {<<a>> : a \in TimeSegs(StoreTimes)}
    \cup {<<a, UuidSeg(i)>> : a \in TimeSegs(StoreTimes), i \in 1 .. StoreIds}

\* The client sends the request that hist records once more; trav.pages
\* records the page of the second response
HistoryRepeat ==
    /\ hist.res.branch = "older"
    /\ trav.pages = <<>>
    /\ trav' = [trav EXCEPT !.pages =
           <<HistoryHandler(messages, hist.req.cid, hist.req.cursor,
                            hist.req.limit).messages>>]
    /\ UNCHANGED <<now, conversations, messages, sends, hist, buckets, rl, bq, ui>>

StoreNext ==
    \/ \E cid \in ConvIds, limit \in 1 .. MaxLimit : RecentCall(cid, limit)
    \/ \E cursor \in StoreCursors, limit \in 1 .. MaxLimit :
           HistoryRequest("c1", cursor, limit)
    \/ HistoryRepeat

SpecStore == StoreInit /\ [][StoreNext]_vars

(* A walk over any conversation that nobody writes to, by a client that does
   not abandon it: it sends the next request as long as the last response
   carried a nextCursor *)
QuietWalkInit ==
    /\ StoreInit
    /\ \A m \in messages : m.conversation_id = "c1"

QuietWalkNext ==
    \/ \E limit \in 1 .. MaxLimit : TravStart("c1", limit)
    \/ TravNext

SpecQuietWalk == QuietWalkInit /\ [][QuietWalkNext]_vars /\ WF_vars(TravNext)

(* The two endpoints behind their rate limiters, at one instant *)
GateInit ==
    /\ now = 0
    /\ conversations = {}
    /\ messages = {}
    /\ sends = [s \in SendIds |-> IdleSend]
    /\ trav = IdleTrav
    /\ hist = [req |-> NoRequest, res |-> NoResponse]
    /\ buckets \in GateMaps
    /\ rl = NoCall
    /\ bq = NoBudgetCall(0)
    /\ ui = IdleWidget

GateNext ==
    \/ \E body \in GateBodies, ip \in GateIps :
           /\ IF SessionIdValid(body.sessionId) THEN TRUE
              ELSE GateRoom(MessageKey(body, ip), MsgIpMax)
           /\ PostMessage(1, body, ip)
    \/ \E id \in 1 .. GateIds : Recent(1, id)
    \/ \E id \in 1 .. GateIds : LlmOk(1, <<"o", "k">>, id)
    \/ Ensure(1) \/ InsertUser(1) \/ LlmFail(1) \/ InsertAi(1) \/ StoreFail(1)
    \/ NextRequest(1)
    \/ \E ip \in GateIps, cursor \in {NoCursor, <<JunkSeg>>}, limit \in {NoLimit, 0} :
           /\ GateRoom(BucketKey("hist:ip", ip), HistIpMax)
           /\ GetHistory(ip, "c1", cursor, limit)

SpecGate == GateInit /\ [][GateNext]_vars

(* generateSupportReply under every configuration env.ts allows: both values
   are positive integers *)
AgentInit ==
    /\ now = 0
    /\ conversations = {}
    /\ messages = {}
    /\ sends = [s \in SendIds |-> IdleSend]
    /\ trav = IdleTrav
    /\ hist = [req |-> NoRequest, res |-> NoResponse]
    /\ buckets = <<>>
    /\ rl = NoCall
    /\ bq \in {AgentIdle(c, m) : c \in 1 .. AgentBudget, m \in 1 .. AgentChars}
    /\ ui = IdleWidget

AgentNext ==
    \/ \E turn \in Turns : AgentHistory(turn)
    \/ \E message \in AgentMessages : AgentSend(message)

SpecAgent == AgentInit /\ [][AgentNext]_vars

-----------------------------------------------------------------------------
(* Properties *)

ConvMessages(cid) == {m \in messages : m.conversation_id = cid}

RECURSIVE Flatten(_)
Flatten(pages) == IF pages = <<>> THEN <<>> ELSE Head(pages) \o Flatten(Tail(pages))

Ascending(page) ==
    \A i \in 1 .. Len(page) - 1 :
        RowLess(page[i].created_at, page[i].id, page[i + 1].created_at, page[i + 1].id)

Occurrences(seq, m) == Cardinality({i \in 1 .. Len(seq) : seq[i] = m})

\* C1: when the completion call of a send fails after the user's message was
\* inserted, the conversation contains that user message, no ai message was
\* stored for that send (every ai row belongs to a send whose insert of the
\* reply committed), and the caller gets the fixed apology with status 502.
C1_CompletionFailureKeepsUserMessage ==
    /\ \A s \in SendIds :
           (sends[s].pc = "done" /\ sends[s].cause = "completion") =>
               /\ sends[s].status = 502
               /\ sends[s].error = Apology
               /\ sends[s].reply = <<>>
               /\ sends[s].aiId = 0
               /\ \E m \in ConvMessages(sends[s].cid) :
                      /\ m.id = sends[s].userId
                      /\ m.sender = "user"
                      /\ m.text = sends[s].text
    /\ Cardinality({m \in messages : m.sender = "ai"})
           = Cardinality({s \in SendIds : sends[s].aiId # 0})

C1_Witness ==
    \E s \in SendIds :
        /\ sends[s].pc = "done"
        /\ sends[s].cause = "completion"
        /\ ConvMessages(sends[s].cid) # {}

\* C2: a walk that started without cursor, followed nextCursor until it was
\* null and saw no write in between (so that the conversation is the set pre
\* read at its first call) has returned every message of the conversation
\* exactly once and nothing else, each page in ascending (createdAt, id) order.
C2_WalkReturnsEveryMessageOnce ==
    (trav.pc = "done" /\ ~trav.wrote) =>
        /\ \A m \in trav.pre : Occurrences(Flatten(trav.pages), m) = 1
        /\ \A i \in 1 .. Len(Flatten(trav.pages)) : Flatten(trav.pages)[i] \in trav.pre
        /\ \A i \in 1 .. Len(trav.pages) : Ascending(trav.pages[i])

\* C3: for every key, the number of calls allowed since the key's window was
\* opened never exceeds the key's max.
C3_AtMostMaxPerWindow ==
    \A key \in RlKeys : rl.tally[key] <= RlMaxOf(key)

C3_Witness ==
    /\ rl.key # ""
    /\ ~rl.allowed
    /\ rl.tally[rl.key] = RlMaxOf(rl.key)
    /\ rl.at > 0

\* The cursor strings that denote a position: a timestamp, or a timestamp and
\* a UUID
Decodes(cursor) ==
    /\ Len(cursor) \in {1, 2}
    /\ cursor[1].k \in {"iso", "date"}
    /\ Len(cursor) = 2 => cursor[2].k = "uuid"

\* C4: a valid history request whose cursor parameter is present but does not
\* decode is rejected as an invalid cursor and returns no page; only a request
\* without cursor parameter gets the most recent page.
C4_UndecodableCursorRejected ==
    (hist.res.status # 0 /\ QueryValid(hist.req.cid, hist.req.limit)
        /\ hist.res.status # 500) =>
        /\ (hist.req.cursor # NoCursor /\ ~Decodes(hist.req.cursor)) =>
               /\ hist.res.status = 400
               /\ hist.res.branch = "invalid_cursor"
               /\ hist.res.messages = <<>>
        /\ hist.res.branch = "recent" => hist.req.cursor = NoCursor

\* C5: ensureConversation calls for one id, in any interleaving, leave one
\* conversation row for the id and none of them fails on the conflict.
C5_EnsureConversationOnce ==
    /\ \A cid \in ConvIds : Cardinality({c \in conversations : c.id = cid}) <= 1
    /\ \A s \in SendIds :
           /\ sends[s].cause # "unique_violation"
           /\ sends[s].pc \in {"recent", "insertUser", "llm", "insertAi"} =>
                  Cardinality({c \in conversations : c.id = sends[s].cid}) = 1

C5_Witness ==
    \E s, t \in SendIds :
        /\ s # t
        /\ sends[s].cid = sends[t].cid
        /\ sends[s].pc = "recent"
        /\ sends[t].pc = "recent"

\* ceil(n / 4): the least c with 4 * c >= n
CeilQuarter(n) == CHOOSE c \in 0 .. n : 4 * c >= n /\ 4 * (c - 1) < n

RECURSIVE CostOfFirst(_, _)
CostOfFirst(turns, k) ==
    IF k = 0 THEN 0 ELSE CostOfFirst(turns, k - 1) + CeilQuarter(Len(turns[k].content))

\* C6: takeRecentWithinTokenBudget returns the longest prefix of its input
\* whose summed cost ceil(length / 4) is at most maxTokens, in input order,
\* and usedTokens is the summed cost of that prefix.
C6_LongestPrefixWithinBudget ==
    bq.pc = "called" =>
        LET k == Len(bq.selectedNewestToOldest) IN
        /\ k <= Len(bq.newestToOldest)
        /\ bq.selectedNewestToOldest = SubSeq(bq.newestToOldest, 1, k)
        /\ bq.usedTokens = CostOfFirst(bq.newestToOldest, k)
        /\ \A j \in 0 .. Len(bq.newestToOldest) :
               (j <= k) <=>
                   (\A i \in 0 .. j : CostOfFirst(bq.newestToOldest, i) <= bq.maxTokens)

\* a selection that fills the budget exactly and stops before a turn that
\* overflows, although a turn older than that one would still fit
C6_Witness ==
    /\ bq.pc = "called"
    /\ LET k == Len(bq.selectedNewestToOldest) IN
       /\ k >= 1
       /\ k + 1 < Len(bq.newestToOldest)
       /\ bq.usedTokens = bq.maxTokens
       /\ CeilQuarter(Len(bq.newestToOldest[k + 1].content)) = 1
       /\ CeilQuarter(Len(bq.newestToOldest[k + 2].content)) = 0

\* C7: within one walk no message id is returned in two pages or twice in a
\* page, whatever inserts commit between the calls.
C7_WalkNeverRepeats ==
    LET f == Flatten(trav.pages) IN
    \A i, j \in 1 .. Len(f) : i # j => f[i].id # f[j].id

C7_Witness ==
    /\ Len(trav.pages) >= 2
    /\ trav.pages[1] # <<>>
    /\ trav.pages[2] # <<>>
    /\ trav.wrote

\* C8: a walk continued until nextCursor is null has returned every message
\* that was stored before its first call, whatever inserts commit in between.
C8_WalkReturnsEveryStoredMessage ==
    trav.pc = "done" =>
        \A m \in trav.pre : Occurrences(Flatten(trav.pages), m) >= 1

\* C9: nextCursor is null exactly when the page is empty; otherwise decoding it
\* yields the createdAt and the id of the first message of the page.
C9_CursorDecodesToOldestOfPage ==
    hist.res.status = 200 =>
        /\ (hist.res.nextCursor = NoCursor) <=> (hist.res.messages = <<>>)
        /\ hist.res.messages # <<>> =>
               parseCursor(hist.res.nextCursor) =
                   [ok |-> TRUE, createdAt |-> hist.res.messages[1].created_at,
                    id |-> hist.res.messages[1].id]

PageSize(limit) == IF limit = NoLimit THEN CHAT_PAGE_SIZE ELSE limit

\* a page that is not empty, holds the oldest message of the conversation and
\* has fewer messages than the limit
ReachesOldestShort ==
    /\ hist.res.status = 200
    /\ hist.res.messages # <<>>
    /\ Len(hist.res.messages) < PageSize(hist.req.limit)
    /\ \A m \in ConvMessages(hist.req.cid) :
           m = hist.res.messages[1]
           \/ RowLess(hist.res.messages[1].created_at, hist.res.messages[1].id,
                      m.created_at, m.id)

\* C10 as claimed: a page that reaches the oldest message with fewer than limit
\* messages left has nextCursor null.
C10_LastPageHasNullCursor ==
    ReachesOldestShort => hist.res.nextCursor = NoCursor

\* C10 as amended: a page that reaches the oldest message with fewer than limit
\* messages left has a nextCursor, which names the first message of the page;
\* nextCursor is null only for an empty page.
C10_LastPageHasCursor ==
    /\ ReachesOldestShort =>
           /\ hist.res.nextCursor # NoCursor
           /\ hist.res.nextCursor[2] = UuidSeg(hist.res.messages[1].id)
    /\ hist.res.status = 200 =>
           ((hist.res.nextCursor = NoCursor) <=> (hist.res.messages = <<>>))

C10_Witness ==
    /\ ReachesOldestShort
    /\ hist.res.branch = "older"
    /\ Cardinality(ConvMessages(hist.req.cid)) >= 2
    /\ hist.res.nextCursor # NoCursor

\* C11: a call of ensureConversation for an id that already has messages
\* changes nothing: the conversations table (the row and its creation time) and
\* the messages table (the rows and so their (createdAt, id) order) are the
\* same before and after the call.
C11_EnsureOnExistingIsNoop ==
    [][\A s \in SendIds :
           (Ensure(s) /\ ConvMessages(sends[s].cid) # {}) =>
               /\ conversations' = conversations
               /\ messages' = messages]_vars

\* the only sender has passed ensureConversation at a time later than the
\* creation of the conversation, whose messages its earlier requests stored
C11_Witness ==
    /\ sends[1].pc = "recent"
    /\ ConvMessages(sends[1].cid) # {}
    /\ \E c \in conversations : c.id = sends[1].cid /\ c.created_at < now

\* the row that send s stored for the user's message
UserRowOf(s) ==
    {m \in ConvMessages(sends[s].cid) :
        m.id = sends[s].userId /\ m.sender = "user" /\ m.text = sends[s].text}

\* C12: in every send the user's message is persisted before the recent
\* history is fetched: a send whose history fetch has answered has its user
\* row in the store, and a send whose history fetch failed leaves its user row
\* in the store.
C12_UserPersistedBeforeHistoryFetch ==
    \A s \in SendIds :
        /\ sends[s].pc = "insertUser" => UserRowOf(s) # {}
        /\ (sends[s].pc = "done" /\ sends[s].cause = "storage" /\ sends[s].at = "recent")
               => UserRowOf(s) # {}

StoreCauses == {"storage", "foreign_key_violation", "unique_violation"}

\* C13: a send answers with the fixed apology only when the completion call
\* failed; a failure of a store call (ensureConversation, the history fetch,
\* the insert of the user message, the insert of the ai message) is answered
\* with the undifferentiated failure response, status 500.
C13_OnlyCompletionFailureApologises ==
    \A s \in SendIds :
        sends[s].pc = "done" =>
            /\ sends[s].error = Apology => sends[s].cause = "completion"
            /\ sends[s].cause \in StoreCauses =>
                   /\ sends[s].status = 500
                   /\ sends[s].error = Generic500

\* output that is empty or consists of white space
Blank(text) == Trim(text) = <<>>

\* the row that send s stored for the reply
AiRowOf(s) ==
    {m \in ConvMessages(sends[s].cid) : m.id = sends[s].aiId /\ m.sender = "ai"}

\* C14: every ai row of the messages table has non-blank text, and so has the
\* reply of every successful send; when the completion call resolves with
\* blank output, the text to be persisted and returned is the fixed fallback
\* sentence.
C14_AiTextNeverBlank ==
    /\ [](/\ \A m \in messages : m.sender = "ai" => ~Blank(m.text)
          /\ \A s \in SendIds : sends[s].status = 200 =>
                 /\ ~Blank(sends[s].reply)
                 /\ \A m \in AiRowOf(s) : m.text = sends[s].reply)
    /\ [][\A s \in SendIds, content \in LlmOutputs, id \in MsgIds :
              (LlmOk(s, content, id) /\ Blank(content)) =>
                  /\ sends'[s].reply = FallbackReply
                  /\ sends'[s].ins.text = FallbackReply]_vars

\* a send answered 200 with the fallback sentence, which is the text of its
\* ai row
C14_Witness ==
    \E s \in SendIds :
        /\ sends[s].pc = "done"
        /\ sends[s].status = 200
        /\ sends[s].reply = FallbackReply
        /\ \E m \in AiRowOf(s) : m.text = FallbackReply

\* C15: a send has answered {reply, sessionId} with status 200 only when its
\* ai row is in the messages table, in the conversation of the request and
\* with the returned reply as its text; before the insert of the ai message
\* has committed no response is sent, and when that insert fails the response
\* carries no reply text.
C15_ReplyOnlyAfterAiPersisted ==
    \A s \in SendIds :
        /\ sends[s].status = 200 =>
               /\ sends[s].pc = "done"
               /\ AiRowOf(s) # {}
               /\ \A m \in AiRowOf(s) : m.text = sends[s].reply
        /\ sends[s].pc = "insertAi" => sends[s].status = 0
        /\ (sends[s].pc = "done" /\ sends[s].at = "insertAi") =>
               /\ sends[s].status # 200
               /\ sends[s].reply = <<>>
               /\ sends[s].aiId = 0

\* a send that stored its user message and lost the insert of its ai message:
\* it answered without reply text and the conversation has no ai row of it
C15_Witness ==
    \E s \in SendIds :
        /\ sends[s].pc = "done"
        /\ sends[s].at = "insertAi"
        /\ sends[s].cause = "storage"
        /\ UserRowOf(s) # {}
        /\ sends[s].reply = <<>>

\* C16: in a send that reaches the completion call, under every allowed
\* MAX_MESSAGE_CHARS and LLM_MAX_CONTEXT_TOKENS, the submitted user message
\* is the first (newest) element given to the budgeter; when its cost
\* ceil(length / 4) is within the budget it is selected and is the last of the
\* turns sent to the completion call, and when its cost exceeds the budget
\* the selection is empty and the used units are 0.
C16_NewestTurnIsTheUserMessage ==
    bq.pc = "invoked" =>
        LET user == [role |-> "user", content |-> bq.userMessage]
            cost == CeilQuarter(Len(bq.userMessage))
        IN /\ bq.maxTokens = bq.maxContextTokens
           /\ Len(bq.newestToOldest) = Len(bq.history) + 1
           /\ bq.newestToOldest[1] = user
           /\ cost <= bq.maxTokens =>
                  /\ bq.selectedNewestToOldest # <<>>
                  /\ bq.selectedNewestToOldest[1] = user
                  /\ bq.sent[Len(bq.sent)] = user
                  /\ bq.usedTokens >= cost
           /\ cost > bq.maxTokens =>
                  /\ bq.selectedNewestToOldest = <<>>
                  /\ bq.sent = <<>>
                  /\ bq.usedTokens = 0

\* a message the validation lets through costs more than the budget, and the
\* history holds a turn that would have fit
C16_Witness ==
    /\ bq.pc = "invoked"
    /\ CeilQuarter(Len(bq.userMessage)) > bq.maxTokens
    /\ bq.history # <<>>
    /\ CeilQuarter(Len(bq.history[Len(bq.history)].content)) <= bq.maxTokens
    /\ bq.sent = <<>>

Min(a, b) == IF a <= b THEN a ELSE b

\* C17: a call of allowRequest runs to its end before the next one starts, so
\* of the N calls made for a key since its window was opened, in whatever
\* order the requests in flight get their turn, exactly min(N, max) were
\* allowed, and the bucket's count is the number allowed.
C17_ExactlyMinAllowed ==
    \A key \in RlKeys :
        IF key \in DOMAIN buckets
        THEN /\ rl.tally[key] = Min(rl.calls[key], RlMaxOf(key))
             /\ buckets[key].count = rl.tally[key]
        ELSE rl.calls[key] = 0 /\ rl.tally[key] = 0

\* more calls than max in one window of a key, the other key's window holding
\* calls of its own
C17_Witness ==
    \E key, other \in RlKeys :
        /\ key # other
        /\ key \in DOMAIN buckets
        /\ rl.calls[key] > RlMaxOf(key)
        /\ buckets[key].count = RlMaxOf(key)
        /\ rl.calls[other] >= 2

\* the call for key made now is the first one for the key, or the first one
\* at or after the bucket's resetAt
OpensWindow(key) == IF key \in DOMAIN buckets THEN buckets[key].resetAt <= now ELSE TRUE

\* C18: a call that is the first for its key, or the first at or after the
\* bucket's resetAt, is allowed and sets count to 1 and resetAt to
\* now + windowMs, whatever the window before held; a later call of that
\* window is allowed exactly when fewer than max calls were allowed since the
\* window was opened, so the new window admits max calls in total.
C18_NewWindowAdmitsMaxAgain ==
    [][\A key \in RlKeys :
           RlRequest(key) =>
               IF OpensWindow(key)
               THEN /\ rl'.allowed
                    /\ buckets'[key] = [count |-> 1, resetAt |-> now + RlWindowMs(key)]
                    /\ rl'.tally[key] = 1
               ELSE /\ rl'.allowed <=> (rl.tally[key] < RlMaxOf(key))
                    /\ rl'.tally[key] <= RlMaxOf(key)]_vars

\* a window that followed one with denied calls has admitted max calls and
\* denies the next one
C18_Witness ==
    /\ rl.key # ""
    /\ rl.prev[rl.key] > RlMaxOf(rl.key)
    /\ rl.tally[rl.key] = RlMaxOf(rl.key)
    /\ rl.calls[rl.key] > RlMaxOf(rl.key)
    /\ ~rl.allowed

\* C19: a denied call leaves the bucket's count and resetAt as they were and
\* reports retryAfterMs = resetAt - now, which is greater than 0 and at most
\* the window length; an allowed call inside an open window adds exactly 1 to
\* count and leaves resetAt as it was; no call touches another key's bucket.
C19_DeniedCallLeavesBucket ==
    [][\A key \in RlKeys :
           RlRequest(key) =>
               /\ ~rl'.allowed =>
                      /\ buckets' = buckets
                      /\ rl'.retryAfterMs = buckets[key].resetAt - now
                      /\ rl'.retryAfterMs > 0
                      /\ rl'.retryAfterMs <= RlWindowMs(key)
               /\ (rl'.allowed /\ ~OpensWindow(key)) =>
                      /\ buckets'[key].count = buckets[key].count + 1
                      /\ buckets'[key].resetAt = buckets[key].resetAt
               /\ \A other \in DOMAIN buckets \ {key} : buckets'[other] = buckets[other]]_vars

\* a call denied later than the window was opened, after calls that were
\* allowed inside the window
C19_Witness ==
    /\ rl.key # ""
    /\ ~rl.allowed
    /\ rl.retryAfterMs > 0
    /\ rl.retryAfterMs < RlWindowMs(rl.key)
    /\ buckets[rl.key].count >= 2
    /\ rl.calls[rl.key] > buckets[rl.key].count

\* C20: getRecentMessages(conversationId, limit) returns min(limit, n) rows,
\* n the number of messages of the conversation; they are rows of that
\* conversation, in ascending (createdAt, id) order, and every row of the
\* conversation that is not returned is below every returned one.
C20_RecentAreTheGreatestAscending ==
    hist.res.branch = "getRecentMessages" =>
        LET page == hist.res.messages
            S == ConvMessages(hist.req.cid)
            returned == {page[i] : i \in 1 .. Len(page)}
        IN /\ Len(page) = Min(hist.req.limit, Cardinality(S))
           /\ Ascending(page)
           /\ returned \subseteq S
           /\ \A m \in S \ returned : \A r \in returned :
                  RowLess(m.created_at, m.id, r.created_at, r.id)

\* a conversation with more messages than limit >= 2, two returned rows with
\* the same createdAt, and a message of another conversation newer than both
C20_Witness ==
    /\ hist.res.branch = "getRecentMessages"
    /\ hist.req.limit >= 2
    /\ Cardinality(ConvMessages(hist.req.cid)) > hist.req.limit
    /\ Len(hist.res.messages) = hist.req.limit
    /\ hist.res.messages[1].created_at = hist.res.messages[2].created_at
    /\ \E m \in messages :
           /\ m.conversation_id # hist.req.cid
           /\ m.created_at > hist.res.messages[2].created_at

\* the rows of conversation cid strictly below the position (t, id)
StrictlyBelow(cid, t, id) ==
    {m \in ConvMessages(cid) : m.created_at < t \/ (m.created_at = t /\ m.id < id)}

\* page holds the Min(limit, n) greatest rows of S, in ascending order
GreatestAscending(page, S, limit) ==
    LET returned == {page[i] : i \in 1 .. Len(page)} IN
    /\ Len(page) = Min(limit, Cardinality(S))
    /\ Ascending(page)
    /\ returned \subseteq S
    /\ \A m \in S \ returned : \A r \in returned :
           RowLess(m.created_at, m.id, r.created_at, r.id)

\* C21: with a two-part cursor that decodes to the position (t, id), the page
\* holds only rows of the conversation strictly below (t, id), never the row
\* the cursor names nor a row at or after it; it holds the limit greatest of
\* them in ascending order; and the same request on the unchanged store gets
\* the same page.
C21_PageStrictlyBelowCursor ==
    (hist.res.branch = "older" /\ Len(hist.req.cursor) = 2) =>
        LET pos == parseCursor(hist.req.cursor)
            page == hist.res.messages
        IN /\ pos.ok
           /\ GreatestAscending(page, StrictlyBelow(hist.req.cid, pos.createdAt, pos.id),
                                hist.req.limit)
           /\ \A i \in 1 .. Len(page) :
                  ~(page[i].created_at = pos.createdAt /\ page[i].id = pos.id)
           /\ \A i \in 1 .. Len(trav.pages) : trav.pages[i] = page

\* the cursor names a stored row; another row with the same createdAt and a
\* smaller id is returned, more rows are below the cursor than limit, and the
\* request was sent twice
C21_Witness ==
    /\ hist.res.branch = "older"
    /\ Len(hist.req.cursor) = 2
    /\ LET pos == parseCursor(hist.req.cursor) IN
       /\ \E m \in ConvMessages(hist.req.cid) :
              m.created_at = pos.createdAt /\ m.id = pos.id
       /\ \E i \in 1 .. Len(hist.res.messages) :
              hist.res.messages[i].created_at = pos.createdAt
       /\ Cardinality(StrictlyBelow(hist.req.cid, pos.createdAt, pos.id))
              > hist.req.limit
    /\ trav.pages # <<>>

\* C22: a cursor of one part, a timestamp t, is accepted, and the page holds
\* the limit newest rows of the conversation whose createdAt is less than t, in
\* ascending order; the ids play no part in the cut, so no row whose createdAt
\* equals t is returned.
C22_TimestampOnlyCursor ==
    (hist.res.status # 0 /\ Len(hist.req.cursor) = 1 /\ Decodes(hist.req.cursor)) =>
        LET pos == parseCursor(hist.req.cursor)
            page == hist.res.messages
        IN /\ hist.res.status = 200
           /\ hist.res.branch = "older"
           /\ pos.ok
           /\ pos.id = NoId
           /\ GreatestAscending(
                  page,
                  {m \in ConvMessages(hist.req.cid) : m.created_at < pos.createdAt},
                  hist.req.limit)
           /\ \A i \in 1 .. Len(page) : page[i].created_at # pos.createdAt

\* rows at the cursor's timestamp exist and are left out, and more rows are
\* older than the timestamp than limit
C22_Witness ==
    /\ hist.res.status = 200
    /\ Len(hist.req.cursor) = 1
    /\ LET pos == parseCursor(hist.req.cursor) IN
       /\ Cardinality({m \in ConvMessages(hist.req.cid) :
                          m.created_at = pos.createdAt}) >= 1
       /\ Cardinality({m \in ConvMessages(hist.req.cid) :
                          m.created_at < pos.createdAt}) > hist.req.limit
    /\ hist.res.messages # <<>>

\* count of the bucket of key, 0 when the map has no such bucket
CountOf(map, key) == IF key \in DOMAIN map THEN map[key].count ELSE 0

\* count of the bucket of key after one more request was counted at time t
CountedOnce(map, key, t) ==
    IF key \in DOMAIN map
    THEN IF map[key].resetAt <= t THEN 1 ELSE map[key].count + 1
    ELSE 1

\* the bucket of key is at its limit at time t
Exhausted(map, key, t, max) ==
    IF key \in DOMAIN map THEN map[key].resetAt > t /\ map[key].count >= max ELSE FALSE

NoCallsMade(s) ==
    /\ sends[s].storeCalls = 0
    /\ sends[s].llmCalls = 0
    /\ sends[s].userRows = 0
    /\ sends[s].aiRows = 0

\* C23: on both endpoints the rate limiter decides before the validation.  A
\* request that meets an exhausted bucket gets 429 whatever its body or query
\* is, and a request the validation rejects has been counted in its bucket;
\* neither of them reads the store, writes the store or calls the completion.
C23_RateLimitPrecedesValidation ==
    /\ [](/\ \A s \in SendIds :
                sends[s].cause \in {"rate_limit", "validation"} =>
                    /\ sends[s].pc = "done"
                    /\ NoCallsMade(s)
                    /\ sends[s].cause = "rate_limit" <=> sends[s].status = 429
          /\ hist.res.branch = "rate_limited" <=> hist.res.status = 429
          /\ hist.res.branch \in {"rate_limited", "invalid_query", "invalid_cursor"} =>
                 hist.res.messages = <<>>)
    /\ [][\A body \in GateBodies, ip \in GateIps :
              PostMessage(1, body, ip) =>
                  /\ Exhausted(buckets, MessageKey(body, ip), now,
                               IF HasSessionId(body.sessionId)
                               THEN MsgSessMax ELSE MsgIpMax)
                         <=> sends'[1].status = 429
                  /\ sends'[1].cause = "validation" =>
                         CountOf(buckets', MessageKey(body, ip))
                             = CountedOnce(buckets, MessageKey(body, ip), now)
                  /\ sends'[1].pc = "done" =>
                         conversations' = conversations /\ messages' = messages]_vars
    /\ [][\A ip \in GateIps, cursor \in {NoCursor, <<JunkSeg>>}, limit \in {NoLimit, 0} :
              GetHistory(ip, "c1", cursor, limit) =>
                  /\ Exhausted(buckets, BucketKey("hist:ip", ip), now, HistIpMax)
                         <=> hist'.res.status = 429
                  /\ hist'.res.branch \in {"invalid_query", "invalid_cursor"} =>
                         CountOf(buckets', BucketKey("hist:ip", ip))
                             = CountedOnce(buckets, BucketKey("hist:ip", ip), now)
                  /\ conversations' = conversations /\ messages' = messages]_vars

\* a message request and a history request were both denied while the
\* conversation has stored messages
C23_Witness ==
    /\ sends[1].pc = "done"
    /\ sends[1].cause = "rate_limit"
    /\ sends[1].status = 429
    /\ hist.res.branch = "rate_limited"
    /\ ConvMessages("c1") # {}

\* C24: the message log is append-only.  No step removes or alters a stored
\* message (every row of messages is a row of messages' with the same id,
\* conversation, sender, text and created_at), no id ever names two rows, and
\* a history request leaves both tables as they are.
C24_MessageLogAppendOnly ==
    /\ [](\A m1 \in messages, m2 \in messages : m1.id = m2.id => m1 = m2)
    /\ [][messages \subseteq messages' /\ conversations \subseteq conversations']_vars
    /\ [][\A ip \in GateIps, cursor \in {NoCursor, <<JunkSeg>>}, limit \in {NoLimit, 0} :
              GetHistory(ip, "c1", cursor, limit) =>
                  messages' = messages /\ conversations' = conversations]_vars

\* a history request was served from a conversation that holds the user
\* messages of two sends
C24_Witness ==
    /\ Cardinality({m \in ConvMessages("c1") : m.sender = "user"}) = 2
    /\ hist.res.status = 200
    /\ Len(hist.res.messages) = 2

\* the rows a step adds to messages
AddedRows == messages' \ messages

\* C25: no step of a send is retried.  A request that has called the
\* completion is past that call and never calls it again, likewise for its
\* insert of the user message and of the ai message, on the success path and
\* on every failure path; every step adds at most one row; and the user
\* insert of a request that follows another one in the same conversation (a
\* resend) adds a row of its own under a new id and leaves the earlier rows.
C25_NoStepIsRetried ==
    /\ [](\A s \in SendIds :
             /\ sends[s].llmCalls <= 1
             /\ sends[s].userRows <= 1
             /\ sends[s].aiRows <= 1
             /\ sends[s].storeCalls <= 4
             /\ sends[s].llmCalls = 1 => sends[s].pc \in {"insertAi", "done"}
             /\ sends[s].userRows = 1 => sends[s].pc \in {"llm", "insertAi", "done"}
             /\ sends[s].aiRows = 1 => sends[s].pc = "done"
             /\ sends[s].aiRows = 1 => sends[s].userRows = 1 /\ sends[s].llmCalls = 1)
    /\ [][/\ Cardinality(AddedRows) <= 1
          /\ \A s \in SendIds :
                 /\ sends'[s].userRows + sends'[s].aiRows
                        > sends[s].userRows + sends[s].aiRows
                    => Cardinality(AddedRows) = 1
                 /\ sends[s].pc = "insertUser" /\ sends'[s].userRows = 1 =>
                        \E m \in AddedRows :
                            /\ m.sender = "user"
                            /\ m.text = sends[s].text
                            /\ m.id \notin {x.id : x \in messages}]_vars

\* a resend: the request has inserted its user message into a conversation
\* that already held the same text as the user message of an earlier request
\* whose completion failed
C25_Witness ==
    /\ sends[1].userRows = 1
    /\ sends[1].pc = "llm"
    /\ \E m1 \in ConvMessages("c1"), m2 \in ConvMessages("c1") :
           /\ m1.id # m2.id
           /\ m1.sender = "user" /\ m2.sender = "user"
           /\ m1.text = m2.text
           /\ m2.id = sends[1].userId
    /\ ~\E m \in messages : m.sender = "ai"

\* history of the rows a send fetched, as the handler maps them for
\* generateSupportReply
HistoryOf(rows) ==
    [i \in 1 .. Len(rows) |-> [role |-> rows[i].sender, content |-> rows[i].text]]

\* C26: the history a send hands to the budgeter was read before the send
\* inserted its own message.  While the insert of the user message is in
\* flight the fetched rows are stored rows, none of them under the id of the
\* row being inserted; when the insert commits, the candidate turns are the
\* fetched rows and, once, the submitted text, and the budgeted turns are
\* selected from exactly these, whatever the other sends on the conversation
\* have done in between.
C26_HistoryExcludesOwnMessage ==
    /\ [](\A s \in SendIds :
             sends[s].pc = "insertUser" =>
                 \A i \in 1 .. Len(sends[s].recent) :
                     /\ sends[s].recent[i].id # sends[s].ins.id
                     /\ sends[s].recent[i] \in messages)
    /\ [][\A s \in SendIds :
              sends[s].pc = "insertUser" /\ sends'[s].pc = "llm" =>
                  /\ \A i \in 1 .. Len(sends[s].recent) :
                         sends[s].recent[i].id # sends'[s].userId
                  /\ \E m \in messages' \ messages : m.id = sends'[s].userId
                  /\ Len(NewestToOldest(HistoryOf(sends[s].recent), sends[s].text))
                         = Len(sends[s].recent) + 1
                  /\ sends'[s].turns
                         = SelectedOldestToNewest(HistoryOf(sends[s].recent),
                                                  sends[s].text)]_vars

\* two sends on one conversation with the same text, interleaved: the second
\* fetched its history after the first one's insert, so its turns are the
\* first one's message and then its own, while the first one's turns are its
\* own message alone
C26_Witness ==
    /\ sends[1].pc = "llm" /\ sends[2].pc = "llm"
    /\ sends[1].cid = sends[2].cid
    /\ sends[1].text = sends[2].text
    /\ Len(sends[1].turns) = 1
    /\ Len(sends[2].turns) = 2
    /\ Cardinality({m \in messages : m.conversation_id = sends[1].cid}) = 2

\* C27: model.invoke receives the system preamble and then the budgeted
\* turns oldest first: with k turns selected, they are the last k of the
\* fetched history followed by the live user message, in that order, as a
\* human or ai message each; when k > 0 the last one is the live user message.
C27_PreambleThenContiguousSuffix ==
    bq.pc = "invoked" =>
        LET all == bq.history \o <<[role |-> "user", content |-> bq.userMessage]>>
            k == Len(bq.selectedNewestToOldest)
        IN /\ Len(bq.lcMessages) = k + 1
           /\ k <= Len(all)
           /\ bq.lcMessages[1] = [type |-> "system", content |-> SystemPreamble]
           /\ \A i \in 1 .. k :
                  bq.lcMessages[1 + i] = LcMessage(all[Len(all) - k + i])
           /\ k > 0 => bq.lcMessages[k + 1]
                           = [type |-> "human", content |-> bq.userMessage]

\* the budget cut the history: the newer of two stored turns and the user
\* message were sent, the older turn, of another text, was not
C27_Witness ==
    /\ bq.pc = "invoked"
    /\ Len(bq.history) = 2
    /\ bq.history[1].content # bq.history[2].content
    /\ bq.history[2].role = "ai"
    /\ Len(bq.lcMessages) = 3
    /\ bq.lcMessages[2] = [type |-> "ai", content |-> bq.history[2].content]

\* C28: a send issues its inserts only after its ensureConversation has
\* returned.  From the read of the history to the response the send's
\* conversation exists and the send has at least one completed store call
\* behind it, every row it is about to insert names an existing conversation,
\* and no send ever ends on a foreign-key violation, whatever the other sends
\* do in between.
C28_ConversationExistsBeforeInsert ==
    \A s \in SendIds :
        /\ sends[s].pc \in {"recent", "insertUser", "llm", "insertAi"} =>
               /\ ConvExists(conversations, sends[s].cid)
               /\ sends[s].storeCalls >= 1
        /\ sends[s].ins # NoRow =>
               /\ sends[s].ins.conversation_id = sends[s].cid
               /\ ConvExists(conversations, sends[s].ins.conversation_id)
        /\ sends[s].userRows + sends[s].aiRows > 0 =>
               ConvExists(conversations, sends[s].cid)
        /\ sends[s].cause # "foreign_key_violation"

\* two interleaved sends on one new conversation have both inserted their
\* user message
C28_Witness ==
    /\ sends[1].userRows = 1 /\ sends[2].userRows = 1
    /\ sends[1].cid = sends[2].cid
    /\ sends[1].userId # sends[2].userId
    /\ Cardinality(conversations) = 1
    /\ sends[1].storeCalls = 3 /\ sends[2].storeCalls = 3

\* allowed calls of key at the instants from tick a to tick b
RECURSIVE AllowedBetween(_, _, _)
AllowedBetween(key, a, b) ==
    IF a > b THEN 0 ELSE rl.log[key][a] + AllowedBetween(key, a + 1, b)

\* allowed calls of key in the interval of length windowMs that begins at
\* tick a, both ends included
AllowedInInterval(key, a) ==
    AllowedBetween(key, a, Min(RlTicks, a + RlWindowMs(key) \div TickMs))

OnlyBucket(key, windowMs, max, denied) ==
    /\ \A k \in (DOMAIN buckets \cup DOMAIN buckets') \ {key} :
           /\ k \in DOMAIN buckets
           /\ k \in DOMAIN buckets'
           /\ buckets'[k] = buckets[k]
    /\ denied <=> Exhausted(buckets, key, now, max)
    /\ denied => buckets' = buckets
    /\ ~denied =>
           /\ key \in DOMAIN buckets'
           /\ buckets'[key].count = CountedOnce(buckets, key, now)
           /\ buckets'[key].count <= max
           /\ OpensWindow(key) => buckets'[key].resetAt = now + windowMs

\* the frame of one request of either endpoint, where carries(body) says
\* which message requests go to the session bucket
MessageFrame(body, ip, carries) ==
    IF carries
    THEN OnlyBucket(BucketKey("msg:sess", body.sessionId),
                    MsgSessWindowMs, MsgSessMax, sends'[1].status = 429)
    ELSE OnlyBucket(BucketKey("msg:ip", ip),
                    MsgIpWindowMs, MsgIpMax, sends'[1].status = 429)

HistoryFrame(ip) ==
    OnlyBucket(BucketKey("hist:ip", ip), HistIpWindowMs, HistIpMax,
               hist'.res.status = 429)

\* C30 as stated: a message request whose body carries a string sessionId
\* consults and updates only the bucket of that session (5 per 10 s), any
\* other message request only the per-IP message bucket of its caller (20 per
\* 60 s), and a history request only the per-IP history bucket (120 per 60 s).
C30_StringSessionIdUsesSessionBucket ==
    /\ [][\A body \in GateBodies, ip \in GateIps :
              PostMessage(1, body, ip) =>
                  MessageFrame(body, ip, body.sessionId # Undefined)]_vars
    /\ [][\A ip \in GateIps, cursor \in {NoCursor, <<JunkSeg>>}, limit \in {NoLimit, 0} :
              GetHistory(ip, "c1", cursor, limit) => HistoryFrame(ip)]_vars

\* C30, amended: the session bucket is used when the sessionId is a string
\* that is not empty; a body with the empty string as sessionId is treated as
\* a body without one and goes to the per-IP message bucket.
C30_NonEmptySessionIdUsesSessionBucket ==
    /\ [][\A body \in GateBodies, ip \in GateIps :
              PostMessage(1, body, ip) =>
                  MessageFrame(body, ip, HasSessionId(body.sessionId))]_vars
    /\ [][\A ip \in GateIps, cursor \in {NoCursor, <<JunkSeg>>}, limit \in {NoLimit, 0} :
              GetHistory(ip, "c1", cursor, limit) => HistoryFrame(ip)]_vars

\* a request with the empty string as sessionId took the last unit of the
\* caller's per-IP message bucket and was then rejected by the validation;
\* no session bucket exists for the empty string, the bucket of session c1
\* has been used by other requests, and the history bucket is as it began
C30_Witness ==
    /\ sends[1].pc = "done"
    /\ sends[1].cid = ""
    /\ sends[1].cause = "validation"
    /\ BucketKey("msg:sess", "") \notin DOMAIN buckets
    /\ CountOf(buckets, BucketKey("msg:ip", "ip1")) = MsgIpMax
    /\ CountOf(buckets, BucketKey("msg:sess", "c1")) > 0
    /\ CountOf(buckets, BucketKey("hist:ip", "ip1")) = HistIpMax - 1

\* ceil(n / d)
CeilDiv(n, d) == (n + d - 1) \div d

\* C31: a backward walk terminates.  Each nextCursor the walk is handed
\* denotes a position strictly below the cursor it sent, a walk that is under
\* way always reaches a response with nextCursor null, and when no message
\* was written during the walk it has made at most ceil(n / limit) + 1 calls
\* on a conversation of n messages.
C31_WalkTerminates ==
    /\ [][(trav.pc = "walking" /\ trav'.pc = "walking"
               /\ Len(trav'.pages) > Len(trav.pages)) =>
              RowLess(parseCursor(trav'.cursor).createdAt, parseCursor(trav'.cursor).id,
                      parseCursor(trav.cursor).createdAt, parseCursor(trav.cursor).id)]_vars
    /\ [](trav.pc = "done" => trav.cursor = NoCursor)
    /\ [](trav.pc # "idle" /\ ~trav.wrote =>
              Len(trav.pages) <= CeilDiv(Cardinality(trav.pre), trav.limit) + 1)
    /\ (trav.pc = "walking" ~> trav.pc = "done")

\* a walk with limit 2 over a conversation of four messages ended with its
\* third call, having returned all four
C31_Witness ==
    /\ trav.pc = "done"
    /\ ~trav.wrote
    /\ trav.limit = 2
    /\ Cardinality(trav.pre) = 4
    /\ Len(trav.pages) = 3
    /\ Len(trav.pages[1]) = 2 /\ Len(trav.pages[2]) = 2 /\ trav.pages[3] = <<>>

\* the messages of conversation cid that sender wrote
BySender(cid, sender) == {m \in ConvMessages(cid) : m.sender = sender}

\* C32: in every conversation the ai messages are at most as many as the
\* user messages, and a step that adds an ai message is the insert of a send
\* whose own user message is already stored in the same conversation.
C32_AiNeverOutnumbersUser ==
    /\ [](\A cid \in ConvIds :
             Cardinality(BySender(cid, "ai")) <= Cardinality(BySender(cid, "user")))
    /\ [][\A m \in messages' \ messages :
              m.sender = "ai" =>
                  \E s \in SendIds :
                      /\ sends[s].pc = "insertAi"
                      /\ sends[s].ins = m
                      /\ sends[s].userRows = 1
                      /\ \E u \in BySender(m.conversation_id, "user") :
                             u.id = sends[s].userId]_vars

\* two interleaved sends on one conversation: the second inserted its user
\* message before the first one's reply was stored, and both have been
\* answered with their replies stored
C32_Witness ==
    /\ sends[1].status = 200 /\ sends[2].status = 200
    /\ Cardinality(BySender("c1", "ai")) = 2
    /\ Cardinality(BySender("c1", "user")) = 2
    /\ sends[2].userId < sends[1].aiId
    /\ sends[1].userId < sends[2].userId

-----------------------------------------------------------------------------
(* The widget of one session, once it is opened, against the server, at one
   instant *)

WidgetTexts == {<<"a">>, <<" ">>, <<"z">>}

\* A conversation with one message more than a page holds
WidgetRows ==
    {[id |-> i, conversation_id |-> WidgetSession, sender |-> "user",
      text |-> <<"h", "i">>, created_at |-> 0] : i \in 1 .. CHAT_PAGE_SIZE + 1}

\* The limiter's map: empty, or the session's bucket at its limit
WidgetMaps ==
    {<<>>,
     MapSet(<<>>, BucketKey("msg:sess", WidgetSession),
            BucketAfter(MsgSessMax, MsgSessWindowMs))}

WidgetInit ==
    /\ now = 0
    /\ \/ conversations = {} /\ messages = {}
       \/ /\ conversations = {[id |-> WidgetSession, created_at |-> 0]}
          /\ messages = WidgetRows
    /\ sends = [s \in SendIds |-> IdleSend]
    /\ trav = IdleTrav
    /\ hist = [req |-> NoRequest, res |-> NoResponse]
    /\ buckets \in WidgetMaps
    /\ rl = NoCall
    /\ bq = NoBudgetCall(0)
    /\ ui = IdleWidget

\* The slot that serves the next request of the widget
NextSlot(s) == ui.req[s] = <<>> /\ \A r \in SendIds : r < s => ui.req[r] # <<>>

\* Of the ids that randomUUID() can draw, the least
LeastFree(id) == id \in FreeIds /\ \A other \in FreeIds : id <= other

\* The steps of the server on the request of slot s
ServeStep(s) ==
    \/ WidgetPost(s)
    \/ Ensure(s)
    \/ \E id \in MsgIds : LeastFree(id) /\ Recent(s, id)
    \/ InsertUser(s)
    \/ \E id \in MsgIds : LeastFree(id) /\ LlmOk(s, <<"o", "k">>, id)
    \/ LlmFail(s)
    \/ InsertAi(s)
    \/ StoreFail(s)

\* The steps with which the requests in flight come to their end
WidgetResume ==
    \/ \E s \in SendIds : ServeStep(s)
    \/ \E s \in SendIds : SendDone(s)
    \/ \E ok \in BOOLEAN : InitialDone(ok)
    \/ \E i \in 1 .. WidgetCalls, ok \in BOOLEAN : OlderDone(i, ok)

\* What the user does
WidgetEvent ==
    \/ OpenWidget
    \/ StartReached
    \/ \E s \in SendIds, text \in WidgetTexts : NextSlot(s) /\ SendAttempt(s, text)

WidgetNext == WidgetEvent \/ Render \/ WidgetResume

SpecWidget == WidgetInit /\ [][WidgetNext]_vars

-----------------------------------------------------------------------------
(* The widget *)

\* The send requests of the widget that have no response yet
InFlight == {s \in SendIds : ui.req[s] # <<>>}

\* The messages of the list that handleSend added for the user
Optimistic(list) ==
    {i \in 1 .. Len(list) : list[i].id = NoId /\ list[i].sender = "user"}

\* C33: the widget never has two send requests in flight, and while one is in
\* flight no step, a click or Enter included, issues a send request or adds a
\* user message to the list
C33_OneSendInFlight ==
    /\ [](Cardinality(InFlight) <= 1)
    /\ [][InFlight # {} =>
            /\ ui'.sent = ui.sent
            /\ InFlight' \subseteq InFlight
            /\ Cardinality(Optimistic(ui'.messages))
                   <= Cardinality(Optimistic(ui.messages))]_vars

\* A second send was declined while the first was in flight
C33_Witness ==
    /\ Cardinality(InFlight) = 1
    /\ ui.declined = "sending"
    /\ ui.sent = 1
    /\ Cardinality(Optimistic(ui.messages)) = 1

\* The positions of the list that hold rows of the server
FromServer(list) == {i \in 1 .. Len(list) : list[i].id # NoId}

\* C34: the rows of the server in the widget's list are strictly ascending by
\* (created_at, id), so none is there twice, and no step issues an older-page
\* request while nextCursor is null, hasMore is false or an older-page
\* request is in flight
C34_NoDuplicateOlderPage ==
    /\ [](\A i, j \in FromServer(ui.messages) :
             i < j => RowLess(ui.messages[i].created_at, ui.messages[i].id,
                              ui.messages[j].created_at, ui.messages[j].id))
    /\ [][(~ui.hasMore \/ ui.nextCursor = NoCursor \/ ui.loads # <<>>)
              => Len(ui'.loads) <= Len(ui.loads)]_vars

(* The widget when every request in flight comes to its end, with a response
   or with an error, and every scheduled render takes place *)
SpecWidgetFair == SpecWidget /\ WF_vars(WidgetResume) /\ WF_vars(Render)

\* C35: the step that ends a send request, whatever its status, clears
\* isSending, and the step that ends an older-page request clears
\* isLoadingMore; a widget that is sending, or shows the typing indicator and
\* the disabled button, or is loading more, eventually is not
C35_BusyStatesClear ==
    /\ [][\A s \in SendIds :
              ui.req[s] # <<>> /\ ui'.req[s] = <<>> => ~ui'.isSending]_vars
    /\ [][Len(ui'.loads) < Len(ui.loads) => ~ui'.isLoadingMore]_vars
    /\ (ui.isSending ~> ~ui.isSending)
    /\ (ui.seen.isSending ~> ~ui.seen.isSending)
    /\ (ui.isLoadingMore ~> ~ui.isLoadingMore)

\* A send that was refused by the limiter and an older-page load have come to
\* their ends and the widget is idle again
C35_Witness ==
    /\ ui.lastStatus = 429
    /\ ui.loaded > 0 /\ ui.loads = <<>>
    /\ InFlight = {}
    /\ ~ui.isSending /\ ~ui.seen.isSending /\ ~ui.isLoadingMore

\* The user rows of the widget's conversation with the given text
PersistedWith(text) ==
    {m \in messages : m.conversation_id = WidgetSession /\ m.sender = "user"
                      /\ m.text = text}

\* C36: when a send of the widget has come to its end and none is in flight,
\* the user messages that handleSend put in the list are in the messages
\* table, as many rows of each text as the list shows
C36_ShownUserMessagesPersisted ==
    (ui.lastStatus # 0 /\ InFlight = {}) =>
        \A i \in Optimistic(ui.messages) :
            Cardinality({j \in Optimistic(ui.messages) :
                            ui.messages[j].text = ui.messages[i].text})
                <= Cardinality(PersistedWith(ui.messages[i].text))

====
